---- MODULE Spec2Model ----
(***************************************************************************)
(* TrueMoney: CSV import normalisation (FileImportService), keyword        *)
(* categoriser and insight detectors (IntelligenceService), the finance    *)
(* store (useFinanceStore) and the two screens that drive them.            *)
(*                                                                         *)
(* Text is modelled by TLA+ strings (Len, \o and SubSeq act on them as on  *)
(* sequences of characters).  Numbers are exact rationals [n, d] plus the  *)
(* IEEE specials NaN, Infinity and -Infinity that a division can produce.  *)
(* Time is counted in ticks of half a day since 2024-01-01 00:00.          *)
(***************************************************************************)
EXTENDS Integers, Sequences, FiniteSets, TLC

VARIABLES
  \* useFinanceStore state
  accounts, transactions, budgets, insights, dailyBudget,
  spendingPatterns, incomePatterns, isLoading, error,
  \* ImportScreen state and the wall clock
  importing, selectedBank, now,
  \* a service call: its name and arguments, whether it returned, its result
  call, returned, ret

vars == <<accounts, transactions, budgets, insights, dailyBudget,
          spendingPatterns, incomePatterns, isLoading, error,
          importing, selectedBank, now, call, returned, ret>>

storeVars == <<accounts, transactions, budgets, insights, dailyBudget,
               spendingPatterns, incomePatterns, isLoading, error>>

screenVars == <<importing, selectedBank>>

callVars == <<call, returned, ret>>

-----------------------------------------------------------------------------
(* Bounds of the model *)

\* longest field of a generated CSV line
MaxFieldLen == 2
\* most fields of a generated CSV line
MaxFields == 2
\* longest raw CSV line
MaxLineLen == 4
\* most lines after the header line of a generated statement file
MaxRows == 2

-----------------------------------------------------------------------------
(* JavaScript string primitives *)

CharAt(s, i) == IF i >= 1 /\ i <= Len(s) THEN SubSeq(s, i, i) ELSE ""

\* the characters String.prototype.trim and the regex class \s remove
IsSpace(c) == c \in {" ", "\t", "\r", "\n"}

RECURSIVE TrimStart(_)
TrimStart(s) ==
  IF Len(s) > 0 /\ IsSpace(CharAt(s, 1)) THEN TrimStart(SubSeq(s, 2, Len(s))) ELSE s

RECURSIVE TrimEnd(_)
TrimEnd(s) ==
  IF Len(s) > 0 /\ IsSpace(CharAt(s, Len(s))) THEN TrimEnd(SubSeq(s, 1, Len(s) - 1)) ELSE s

Trim(s) == TrimEnd(TrimStart(s))

UpperLetters == "ABCDEFGHIJKLMNOPQRSTUVWXYZ"
LowerLetters == "abcdefghijklmnopqrstuvwxyz"

LowerChar(c) ==
  IF \E k \in 1..26 : CharAt(UpperLetters, k) = c
  THEN CharAt(LowerLetters, CHOOSE k \in 1..26 : CharAt(UpperLetters, k) = c)
  ELSE c

RECURSIVE ToLowerCase(_)
ToLowerCase(s) ==
  IF Len(s) <= 1 THEN LowerChar(s)
  ELSE ToLowerCase(SubSeq(s, 1, Len(s) \div 2))
       \o ToLowerCase(SubSeq(s, Len(s) \div 2 + 1, Len(s)))

\* String.prototype.includes
Includes(s, kw) ==
  \E k \in 1..(Len(s) - Len(kw) + 1) : SubSeq(s, k, k + Len(kw) - 1) = kw

\* Array.prototype.join
RECURSIVE Join(_, _)
Join(parts, sep) ==
  IF Len(parts) = 0 THEN ""
  ELSE IF Len(parts) = 1 THEN parts[1]
  ELSE parts[1] \o sep \o Join(Tail(parts), sep)

\* String.prototype.split on a one-character separator: the pieces between
\* consecutive occurrences of the separator
Split(s, sep) ==
  LET at == {k \in 1..Len(s) : CharAt(s, k) = sep}
      \* the position of the j-th separator; 0 before the first, Len(s) + 1 after the last
      pos(j) == IF j = 0 THEN 0
                ELSE IF j > Cardinality(at) THEN Len(s) + 1
                ELSE CHOOSE k \in at : Cardinality({q \in at : q < k}) = j - 1
  IN [j \in 1..(Cardinality(at) + 1) |-> SubSeq(s, pos(j - 1) + 1, pos(j) - 1)]

\* all strings over an alphabet up to a length
RECURSIVE StringsUpTo(_, _)
StringsUpTo(alphabet, n) ==
  IF n = 0 THEN {""}
  ELSE StringsUpTo(alphabet, n - 1)
       \cup {s \o c : s \in StringsUpTo(alphabet, n - 1), c \in alphabet}

SeqsUpTo(S, n) == UNION {[1..k -> S] : k \in 1..n}

-----------------------------------------------------------------------------
(* JavaScript numbers: exact rationals and the IEEE specials *)

AbsInt(a) == IF a < 0 THEN -a ELSE a

RECURSIVE GCD(_, _)
GCD(a, b) == IF b = 0 THEN a ELSE GCD(b, a % b)

\* the rational n/d in lowest terms, d > 0
Num(n, d) ==
  LET g == GCD(AbsInt(n), AbsInt(d))
      sign == IF d < 0 THEN -1 ELSE 1
  IN [k |-> "num", n |-> sign * (n \div g), d |-> sign * (d \div g)]

Int2Num(a) == [k |-> "num", n |-> a, d |-> 1]
Zero == Int2Num(0)
NaN == [k |-> "nan", n |-> 0, d |-> 1]
PosInfinity == [k |-> "inf", n |-> 1, d |-> 1]
NegInfinity == [k |-> "inf", n |-> -1, d |-> 1]

IsNaN(a) == a.k = "nan"
IsFinite(a) == a.k = "num"
\* -1, 0 or 1
Sign(a) == IF a.n > 0 THEN 1 ELSE IF a.n < 0 THEN -1 ELSE 0

NNeg(a) == [a EXCEPT !.n = -a.n]

\* sums, products, quotients and comparisons take out common factors before
\* they multiply
NAdd(a, b) ==
  IF IsNaN(a) \/ IsNaN(b) THEN NaN
  ELSE IF IsFinite(a) /\ IsFinite(b)
  THEN LET g == GCD(a.d, b.d)
       IN Num(a.n * (b.d \div g) + b.n * (a.d \div g), (a.d \div g) * b.d)
  ELSE IF IsFinite(a) THEN b
  ELSE IF IsFinite(b) THEN a
  ELSE IF a.n = b.n THEN a ELSE NaN

NSub(a, b) == NAdd(a, NNeg(b))

NMul(a, b) ==
  IF IsNaN(a) \/ IsNaN(b) THEN NaN
  ELSE IF IsFinite(a) /\ IsFinite(b)
  THEN LET g1 == GCD(AbsInt(a.n), b.d)
           g2 == GCD(AbsInt(b.n), a.d)
       IN Num((a.n \div g1) * (b.n \div g2), (a.d \div g2) * (b.d \div g1))
  ELSE IF Sign(a) * Sign(b) = 0 THEN NaN
  ELSE IF Sign(a) * Sign(b) > 0 THEN PosInfinity ELSE NegInfinity

NDiv(a, b) ==
  IF IsNaN(a) \/ IsNaN(b) THEN NaN
  ELSE IF IsFinite(a) /\ IsFinite(b)
  THEN IF b.n # 0
       THEN LET g1 == GCD(AbsInt(a.n), AbsInt(b.n))
                g2 == GCD(a.d, b.d)
            IN Num((a.n \div g1) * (b.d \div g2), (a.d \div g2) * (b.n \div g1))
       ELSE IF a.n = 0 THEN NaN
       ELSE IF a.n > 0 THEN PosInfinity ELSE NegInfinity
  ELSE IF IsFinite(b)
  THEN IF Sign(a) * (IF b.n < 0 THEN -1 ELSE 1) > 0 THEN PosInfinity ELSE NegInfinity
  ELSE IF IsFinite(a) THEN Zero
  ELSE NaN

\* a < b; every comparison with NaN is false
NLt(a, b) ==
  IF IsNaN(a) \/ IsNaN(b) THEN FALSE
  ELSE IF IsFinite(a) /\ IsFinite(b)
  THEN LET g == GCD(a.d, b.d) IN a.n * (b.d \div g) < b.n * (a.d \div g)
  ELSE IF IsFinite(a) THEN b.n > 0
  ELSE IF IsFinite(b) THEN a.n < 0
  ELSE a.n < b.n

NGt(a, b) == NLt(b, a)
NLe(a, b) == ~IsNaN(a) /\ ~IsNaN(b) /\ ~NLt(b, a)
NGe(a, b) == NLe(b, a)
\* a === b
NEq(a, b) == ~IsNaN(a) /\ ~IsNaN(b) /\ a = b

\* Math.abs
MathAbs(a) == [a EXCEPT !.n = AbsInt(a.n)]

\* Math.min
MathMin(a, b) == IF IsNaN(a) \/ IsNaN(b) THEN NaN ELSE IF NLt(b, a) THEN b ELSE a

\* Array.prototype.reduce((sum, x) => sum + x, 0)
RECURSIVE Sum(_)
Sum(nums) == IF Len(nums) = 0 THEN Zero ELSE NAdd(Sum(SubSeq(nums, 1, Len(nums) - 1)), nums[Len(nums)])

Digits == "0123456789"
IsDigit(c) == \E k \in 1..10 : CharAt(Digits, k) = c
DigitVal(c) == (CHOOSE k \in 1..10 : CharAt(Digits, k) = c) - 1

\* the length of the run of digits of s that starts at index k
RECURSIVE DigitRun(_, _)
DigitRun(s, k) == IF IsDigit(CharAt(s, k)) THEN 1 + DigitRun(s, k + 1) ELSE 0

\* the value of a string of digits
RECURSIVE DigitsVal(_)
DigitsVal(s) ==
  IF Len(s) = 0 THEN 0
  ELSE 10 * DigitsVal(SubSeq(s, 1, Len(s) - 1)) + DigitVal(CharAt(s, Len(s)))

RECURSIVE Pow10(_)
Pow10(k) == IF k = 0 THEN 1 ELSE 10 * Pow10(k - 1)

\* parseFloat: the longest prefix [+-]digits[.digits] after leading blanks;
\* exponents and the literal Infinity are not part of the statement alphabet
parseFloatOf(s) ==
  LET signLen == IF CharAt(s, 1) \in {"-", "+"} THEN 1 ELSE 0
      sign == IF CharAt(s, 1) = "-" THEN -1 ELSE 1
      intLen == DigitRun(s, signLen + 1)
      hasDot == CharAt(s, signLen + intLen + 1) = "."
      fracLen == IF hasDot THEN DigitRun(s, signLen + intLen + 2) ELSE 0
      intVal == DigitsVal(SubSeq(s, signLen + 1, signLen + intLen))
      fracVal == DigitsVal(SubSeq(s, signLen + intLen + 2, signLen + intLen + 1 + fracLen))
  IN IF intLen = 0 /\ fracLen = 0 THEN NaN
     ELSE Num(sign * (intVal * Pow10(fracLen) + fracVal), Pow10(fracLen))

parseFloat(str) == parseFloatOf(TrimStart(str))

\* isNaN(amount) ? 0 : amount
ZeroIfNaN(amount) == IF IsNaN(amount) THEN Zero ELSE amount

\* String.prototype.replace(/[chars]/g, by)
RECURSIVE ReplaceChars(_, _, _)
ReplaceChars(s, chars, by) ==
  IF Len(s) = 0 THEN ""
  ELSE IF Len(s) = 1 THEN (IF s \in chars THEN by ELSE s)
  ELSE ReplaceChars(SubSeq(s, 1, Len(s) \div 2), chars, by)
       \o ReplaceChars(SubSeq(s, Len(s) \div 2 + 1, Len(s)), chars, by)

\* parseAmount that leaves parentheses alone
parseAmountNoParens(amountStr) ==
  ZeroIfNaN(parseFloat(Trim(
    ReplaceChars(amountStr, {"$", "€", "£", "¥", ",", " ", "\t", "\r", "\n"}, ""))))

\* FileImportService.parseAmount
parseAmount(amountStr) ==
  ZeroIfNaN(parseFloat(Trim(ReplaceChars(
    ReplaceChars(amountStr, {"$", "€", "£", "¥", ",", " ", "\t", "\r", "\n"}, ""),
    {"(", ")"}, "-"))))

-----------------------------------------------------------------------------
(* JavaScript Date: a time is a count of ticks since 2024-01-01 00:00, in   *)
(* one time zone *)

\* ticks per day: the resolution of the clock
TicksPerDay == 2

EpochYear == 2024

IsLeap(y) == (y % 4 = 0 /\ y % 100 # 0) \/ y % 400 = 0

DaysInYear(y) == IF IsLeap(y) THEN 366 ELSE 365

DaysInMonth(y, m) ==
  IF m = 2 THEN (IF IsLeap(y) THEN 29 ELSE 28)
  ELSE IF m \in {4, 6, 9, 11} THEN 30 ELSE 31

\* days from the epoch to January 1st of year y
RECURSIVE DaysBeforeYear(_)
DaysBeforeYear(y) ==
  IF y = EpochYear THEN 0
  ELSE IF y > EpochYear THEN DaysBeforeYear(y - 1) + DaysInYear(y - 1)
  ELSE DaysBeforeYear(y + 1) - DaysInYear(y)

RECURSIVE DaysBeforeMonth(_, _)
DaysBeforeMonth(y, m) ==
  IF m = 1 THEN 0 ELSE DaysBeforeMonth(y, m - 1) + DaysInMonth(y, m - 1)

\* new Date(y, m - 1, d): midnight of a calendar day (m is 1-based here)
MakeDate(y, m, d) == (DaysBeforeYear(y) + DaysBeforeMonth(y, m) + d - 1) * TicksPerDay

\* the day a time falls on, and the ticks since its midnight
DayOf(t) == IF t >= 0 THEN t \div TicksPerDay ELSE -((-t + TicksPerDay - 1) \div TicksPerDay)
TimeOfDay(t) == t - DayOf(t) * TicksPerDay

RECURSIVE YearOfDay(_, _)
YearOfDay(day, y) ==
  IF day < DaysBeforeYear(y) THEN YearOfDay(day, y - 1)
  ELSE IF day >= DaysBeforeYear(y) + DaysInYear(y) THEN YearOfDay(day, y + 1)
  ELSE y

\* Date.prototype.getFullYear
getFullYear(t) == YearOfDay(DayOf(t), EpochYear)

RECURSIVE MonthOfDay(_, _, _)
MonthOfDay(dayOfYear, y, m) ==
  IF dayOfYear < DaysBeforeMonth(y, m) + DaysInMonth(y, m) THEN m
  ELSE MonthOfDay(dayOfYear, y, m + 1)

\* Date.prototype.getMonth, 1-based
getMonth(t) ==
  LET y == getFullYear(t) IN MonthOfDay(DayOf(t) - DaysBeforeYear(y), y, 1)

\* Date.prototype.getDate
getDate(t) ==
  LET y == getFullYear(t)
  IN DayOf(t) - DaysBeforeYear(y) - DaysBeforeMonth(y, getMonth(t)) + 1

\* date-fns startOfMonth
startOfMonth(t) == MakeDate(getFullYear(t), getMonth(t), 1)

\* date-fns subMonths: the same day of the month, clamped to the month's end,
\* at the same time of day
subMonths(t, amount) ==
  LET months == getFullYear(t) * 12 + (getMonth(t) - 1) - amount
      y == months \div 12
      m == (months % 12) + 1
      d == IF getDate(t) > DaysInMonth(y, m) THEN DaysInMonth(y, m) ELSE getDate(t)
  IN MakeDate(y, m, d) + TimeOfDay(t)

NullDate == [isNull |-> TRUE, time |-> 0]
ValidDate(t) == [isNull |-> FALSE, time |-> t]

AllDigits(s) ==
  Len(s) > 0 /\ \A k \in 1..Len(s) : IsDigit(CharAt(s, k))

CivilDate(y, m, d) ==
  IF m \in 1..12 /\ d >= 1 /\ d <= DaysInMonth(y, m)
  THEN ValidDate(MakeDate(y, m, d)) ELSE NullDate

\* new Date(string): the ISO form YYYY-MM-DD and the slash forms M/D/YYYY and
\* YYYY/M/D are dates; any other text is an Invalid Date
NewDateOf(iso, sl) ==
  IF /\ Len(iso) = 3 /\ \A k \in 1..3 : AllDigits(iso[k])
     /\ Len(iso[1]) = 4 /\ Len(iso[2]) = 2 /\ Len(iso[3]) = 2
  THEN CivilDate(DigitsVal(iso[1]), DigitsVal(iso[2]), DigitsVal(iso[3]))
  ELSE IF Len(sl) = 3 /\ \A k \in 1..3 : AllDigits(sl[k])
  THEN IF Len(sl[1]) = 4 /\ Len(sl[2]) <= 2 /\ Len(sl[3]) <= 2
       THEN CivilDate(DigitsVal(sl[1]), DigitsVal(sl[2]), DigitsVal(sl[3]))
       ELSE IF Len(sl[1]) <= 2 /\ Len(sl[2]) <= 2 /\ Len(sl[3]) = 4
       THEN CivilDate(DigitsVal(sl[3]), DigitsVal(sl[1]), DigitsVal(sl[2]))
       ELSE NullDate
  ELSE NullDate

NewDate(str) == NewDateOf(Split(str, "-"), Split(str, "/"))

\* a date that is used when it is valid, and the fallback otherwise
DateOrElse(date, fallback) == IF ~date.isNull THEN date ELSE fallback

\* the four regular expressions of parseDate: the separator and the digit
\* counts each allows for its three groups
DateFormats ==
  << [sep |-> "/", lens |-> <<{1, 2}, {1, 2}, {4}>>],
     [sep |-> "/", lens |-> <<{1, 2}, {1, 2}, {4}>>],
     [sep |-> "-", lens |-> <<{4}, {1, 2}, {1, 2}>>],
     [sep |-> "-", lens |-> <<{1, 2}, {1, 2}, {4}>>] >>

\* cleaned.match(format)
MatchParts(parts, format) ==
  IF /\ Len(parts) = 3
     /\ \A k \in 1..3 : AllDigits(parts[k]) /\ Len(parts[k]) \in format.lens[k]
  THEN parts ELSE <<>>

MatchFormat(cleaned, format) == MatchParts(Split(cleaned, format.sep), format)

\* new Date(`${match[1]}/${match[2]}/${match[3]}`) of a match, if any
DateOfMatch(match) ==
  IF Len(match) = 3
  THEN NewDate(match[1] \o "/" \o match[2] \o "/" \o match[3])
  ELSE NullDate

RECURSIVE parseDateFormats(_, _)
parseDateFormats(cleaned, f) ==
  IF f > Len(DateFormats) THEN NullDate
  ELSE DateOrElse(DateOfMatch(MatchFormat(cleaned, DateFormats[f])),
                  parseDateFormats(cleaned, f + 1))

\* FileImportService.parseDate
parseDateOf(cleaned) == DateOrElse(NewDate(cleaned), parseDateFormats(cleaned, 1))

parseDate(dateStr) == parseDateOf(Trim(dateStr))

-----------------------------------------------------------------------------
(* FileImportService.parseCSVLine *)

\* one iteration of the for loop without the doubled-quote branch
parseCSVStepNoEscape(st, line, i) ==
  LET char == CharAt(line, i)
  IN IF char = "\""
     THEN [st EXCEPT !.inQuotes = ~st.inQuotes]
     ELSE IF char = "," /\ ~st.inQuotes
     THEN [st EXCEPT !.result = Append(st.result, Trim(st.current)), !.current = ""]
     ELSE [st EXCEPT !.current = st.current \o char]

\* one iteration of the for loop at index i (1-based); skip records the i++
\* that passes over the second quote of a doubled quote
parseCSVStep(st, line, i) ==
  LET char == CharAt(line, i)
      nextChar == CharAt(line, i + 1)
  IN IF char = "\""
     THEN IF st.inQuotes /\ nextChar = "\""
          THEN [st EXCEPT !.current = st.current \o "\"", !.skip = TRUE]
          ELSE [st EXCEPT !.inQuotes = ~st.inQuotes]
     ELSE IF char = "," /\ ~st.inQuotes
     THEN [st EXCEPT !.result = Append(st.result, Trim(st.current)), !.current = ""]
     ELSE [st EXCEPT !.current = st.current \o char]

\* the iterations lo..hi of the loop in order, the first half before the
\* second; an iteration that ended on a doubled quote passes over one index
RECURSIVE parseCSVLoop(_, _, _, _)
parseCSVLoop(st, line, lo, hi) ==
  IF lo > hi THEN st
  ELSE IF lo = hi THEN parseCSVStep(st, line, lo)
  ELSE LET mid == (lo + hi) \div 2
           half == parseCSVLoop(st, line, lo, mid)
       IN IF half.skip
          THEN parseCSVLoop([half EXCEPT !.skip = FALSE], line, mid + 2, hi)
          ELSE parseCSVLoop(half, line, mid + 1, hi)

parseCSVLine(line) ==
  LET st == parseCSVLoop([current |-> "", inQuotes |-> FALSE, result |-> <<>>, skip |-> FALSE],
                         line, 1, Len(line))
  IN Append(st.result, Trim(st.current))

-----------------------------------------------------------------------------
(* BANK_PATTERNS; typeColumn "" is null *)

BANK_PATTERNS ==
  [bankOfAmerica |->
     [name |-> "Bank of America",
      dateColumns |-> <<"Posted Date", "Date">>,
      descriptionColumns |-> <<"Payee", "Description">>,
      amountColumns |-> <<"Amount">>,
      typeColumn |-> "",
      accountColumns |-> <<"Account">>],
   chase |->
     [name |-> "Chase",
      dateColumns |-> <<"Posting Date", "Transaction Date">>,
      descriptionColumns |-> <<"Description">>,
      amountColumns |-> <<"Amount">>,
      typeColumn |-> "Type",
      accountColumns |-> <<"Account">>],
   wellsFargo |->
     [name |-> "Wells Fargo",
      dateColumns |-> <<"Date">>,
      descriptionColumns |-> <<"Description", "Merchant">>,
      amountColumns |-> <<"Amount">>,
      typeColumn |-> "",
      accountColumns |-> <<"Account Number">>],
   citi |->
     [name |-> "Citi",
      dateColumns |-> <<"Date">>,
      descriptionColumns |-> <<"Description">>,
      amountColumns |-> <<"Debit", "Credit">>,
      typeColumn |-> "",
      accountColumns |-> <<>>],
   capitalOne |->
     [name |-> "Capital One",
      dateColumns |-> <<"Transaction Date">>,
      descriptionColumns |-> <<"Description">>,
      amountColumns |-> <<"Debit", "Credit">>,
      typeColumn |-> "",
      accountColumns |-> <<"Account Number">>],
   amex |->
     [name |-> "American Express",
      dateColumns |-> <<"Date">>,
      descriptionColumns |-> <<"Description">>,
      amountColumns |-> <<"Amount">>,
      typeColumn |-> "",
      accountColumns |-> <<"Card Member">>]]

\* the null pattern
NoPattern ==
  [name |-> "", dateColumns |-> <<>>, descriptionColumns |-> <<>>,
   amountColumns |-> <<>>, typeColumn |-> "", accountColumns |-> <<>>]

-----------------------------------------------------------------------------
(* FileImportService.autoDetectBank and detectBankPattern *)

\* autoDetectBank that takes any date and amount columns for Wells Fargo,
\* whatever the number of columns
autoDetectBankAnyWidth(headers) ==
  LET headerStr == ToLowerCase(Join(headers, ","))
  IN IF Includes(headerStr, "posted date") /\ Includes(headerStr, "payee")
     THEN BANK_PATTERNS.bankOfAmerica
     ELSE IF \/ Includes(headerStr, "posting date")
             \/ (Includes(headerStr, "type") /\ Includes(headerStr, "description"))
     THEN BANK_PATTERNS.chase
     ELSE IF \/ Includes(headerStr, "wells")
             \/ Includes(headerStr, "date")
     THEN BANK_PATTERNS.wellsFargo
     ELSE IF /\ Includes(headerStr, "debit") /\ Includes(headerStr, "credit")
             /\ Includes(headerStr, "status")
     THEN BANK_PATTERNS.citi
     ELSE IF /\ Includes(headerStr, "transaction date")
             /\ (Includes(headerStr, "debit") \/ Includes(headerStr, "credit"))
     THEN BANK_PATTERNS.capitalOne
     ELSE IF Includes(headerStr, "card member") \/ Includes(headerStr, "amex")
     THEN BANK_PATTERNS.amex
     ELSE NoPattern

\* autoDetectBank that tests Chase before Bank of America
autoDetectBankChaseFirst(headers) ==
  LET headerStr == ToLowerCase(Join(headers, ","))
  IN IF \/ Includes(headerStr, "posting date")
        \/ (Includes(headerStr, "type") /\ Includes(headerStr, "description"))
     THEN BANK_PATTERNS.chase
     ELSE IF Includes(headerStr, "posted date") /\ Includes(headerStr, "payee")
     THEN BANK_PATTERNS.bankOfAmerica
     ELSE IF \/ Includes(headerStr, "wells")
             \/ (/\ Includes(headerStr, "date") /\ Includes(headerStr, "amount")
                 /\ Len(headers) <= 5)
     THEN BANK_PATTERNS.wellsFargo
     ELSE IF /\ Includes(headerStr, "debit") /\ Includes(headerStr, "credit")
             /\ Includes(headerStr, "status")
     THEN BANK_PATTERNS.citi
     ELSE IF /\ Includes(headerStr, "transaction date")
             /\ (Includes(headerStr, "debit") \/ Includes(headerStr, "credit"))
     THEN BANK_PATTERNS.capitalOne
     ELSE IF Includes(headerStr, "card member") \/ Includes(headerStr, "amex")
     THEN BANK_PATTERNS.amex
     ELSE NoPattern

autoDetectBank(headers) ==
  LET headerStr == ToLowerCase(Join(headers, ","))
  IN IF Includes(headerStr, "posted date") /\ Includes(headerStr, "payee")
     THEN BANK_PATTERNS.bankOfAmerica
     ELSE IF \/ Includes(headerStr, "posting date")
             \/ (Includes(headerStr, "type") /\ Includes(headerStr, "description"))
     THEN BANK_PATTERNS.chase
     ELSE IF \/ Includes(headerStr, "wells")
             \/ (/\ Includes(headerStr, "date") /\ Includes(headerStr, "amount")
                 /\ Len(headers) <= 5)
     THEN BANK_PATTERNS.wellsFargo
     ELSE IF /\ Includes(headerStr, "debit") /\ Includes(headerStr, "credit")
             /\ Includes(headerStr, "status")
     THEN BANK_PATTERNS.citi
     ELSE IF /\ Includes(headerStr, "transaction date")
             /\ (Includes(headerStr, "debit") \/ Includes(headerStr, "credit"))
     THEN BANK_PATTERNS.capitalOne
     ELSE IF Includes(headerStr, "card member") \/ Includes(headerStr, "amex")
     THEN BANK_PATTERNS.amex
     ELSE NoPattern

\* detectBankPattern that tests the hint before lowercasing it
detectBankPatternCaseSensitive(headers, bankName) ==
  LET normalizedName == ReplaceChars(bankName, {" ", "\t", "\r", "\n"}, "")
  IN IF Includes(normalizedName, "bankofamerica") \/ Includes(normalizedName, "boa")
     THEN BANK_PATTERNS.bankOfAmerica
     ELSE IF Includes(normalizedName, "chase")
     THEN BANK_PATTERNS.chase
     ELSE IF Includes(normalizedName, "wellsfargo") \/ Includes(normalizedName, "wells")
     THEN BANK_PATTERNS.wellsFargo
     ELSE IF Includes(normalizedName, "citi")
     THEN BANK_PATTERNS.citi
     ELSE IF Includes(normalizedName, "capitalone") \/ Includes(normalizedName, "capital")
     THEN BANK_PATTERNS.capitalOne
     ELSE IF Includes(normalizedName, "amex") \/ Includes(normalizedName, "americanexpress")
     THEN BANK_PATTERNS.amex
     ELSE autoDetectBank(headers)

detectBankPattern(headers, bankName) ==
  LET normalizedName == ReplaceChars(ToLowerCase(bankName), {" ", "\t", "\r", "\n"}, "")
  IN IF Includes(normalizedName, "bankofamerica") \/ Includes(normalizedName, "boa")
     THEN BANK_PATTERNS.bankOfAmerica
     ELSE IF Includes(normalizedName, "chase")
     THEN BANK_PATTERNS.chase
     ELSE IF Includes(normalizedName, "wellsfargo") \/ Includes(normalizedName, "wells")
     THEN BANK_PATTERNS.wellsFargo
     ELSE IF Includes(normalizedName, "citi")
     THEN BANK_PATTERNS.citi
     ELSE IF Includes(normalizedName, "capitalone") \/ Includes(normalizedName, "capital")
     THEN BANK_PATTERNS.capitalOne
     ELSE IF Includes(normalizedName, "amex") \/ Includes(normalizedName, "americanexpress")
     THEN BANK_PATTERNS.amex
     ELSE autoDetectBank(headers)

-----------------------------------------------------------------------------
(* FileImportService.parseTransaction and its extractors *)

\* row[col] of the header -> value map; "" stands for '' and for undefined.
\* A later header of the same name overwrites an earlier one.
RowGet(headers, values, col) ==
  LET hits == {k \in 1..Len(headers) : headers[k] = col}
  IN IF hits = {} THEN ""
     ELSE LET last == CHOOSE k \in hits : \A j \in hits : j <= k
          IN IF last <= Len(values) THEN values[last] ELSE ""

\* if (value) { const date = this.parseDate(value); ... }
DateOfValue(value) == IF value # "" THEN parseDate(value) ELSE NullDate

RECURSIVE extractDateFrom(_, _, _, _)
extractDateFrom(headers, values, dateColumns, c) ==
  IF c > Len(dateColumns) THEN NullDate
  ELSE DateOrElse(DateOfValue(RowGet(headers, values, dateColumns[c])),
                  extractDateFrom(headers, values, dateColumns, c + 1))

extractDate(headers, values, dateColumns) ==
  extractDateFrom(headers, values, dateColumns, 1)

RECURSIVE extractDescriptionFrom(_, _, _, _)
extractDescriptionFrom(headers, values, descColumns, c) ==
  IF c > Len(descColumns) THEN ""
  ELSE LET value == RowGet(headers, values, descColumns[c])
       IN IF value # "" /\ Trim(value) # "" THEN Trim(value)
          ELSE extractDescriptionFrom(headers, values, descColumns, c + 1)

extractDescription(headers, values, descColumns) ==
  extractDescriptionFrom(headers, values, descColumns, 1)

\* the branches of extractAmount, the single-column branch keeping the sign
AmountOfCellsSigned(typeCell, typeValue, columns, first, second) ==
  IF typeCell # ""
  THEN [amount |-> first,
        type |-> IF \/ Includes(typeValue, "debit")
                    \/ Includes(typeValue, "withdrawal")
                    \/ Includes(typeValue, "payment")
                 THEN "expense" ELSE "income"]
  ELSE IF columns > 1
  THEN IF NGt(first, Zero) THEN [amount |-> first, type |-> "expense"]
       ELSE IF NGt(second, Zero) THEN [amount |-> second, type |-> "income"]
       ELSE [amount |-> Zero, type |-> "expense"]
  ELSE [amount |-> first,
        type |-> IF NLt(first, Zero) THEN "expense" ELSE "income"]

\* the branches of extractAmount, the two-column branch testing the credit
\* before the debit
AmountOfCellsCreditFirst(typeCell, typeValue, columns, first, second) ==
  IF typeCell # ""
  THEN [amount |-> first,
        type |-> IF \/ Includes(typeValue, "debit")
                    \/ Includes(typeValue, "withdrawal")
                    \/ Includes(typeValue, "payment")
                 THEN "expense" ELSE "income"]
  ELSE IF columns > 1
  THEN IF NGt(second, Zero) THEN [amount |-> second, type |-> "income"]
       ELSE IF NGt(first, Zero) THEN [amount |-> first, type |-> "expense"]
       ELSE [amount |-> Zero, type |-> "expense"]
  ELSE [amount |-> MathAbs(first),
        type |-> IF NLt(first, Zero) THEN "expense" ELSE "income"]

\* the three branches of extractAmount on the cells it reads: the type cell
\* ("" when there is no type column or no type value), its lower case, the
\* number of amount columns, and the first and second amounts
AmountOfCells(typeCell, typeValue, columns, first, second) ==
  IF typeCell # ""
  THEN [amount |-> first,
        type |-> IF \/ Includes(typeValue, "debit")
                    \/ Includes(typeValue, "withdrawal")
                    \/ Includes(typeValue, "payment")
                 THEN "expense" ELSE "income"]
  ELSE IF columns > 1
  THEN IF NGt(first, Zero) THEN [amount |-> first, type |-> "expense"]
       ELSE IF NGt(second, Zero) THEN [amount |-> second, type |-> "income"]
       ELSE [amount |-> Zero, type |-> "expense"]
  ELSE [amount |-> MathAbs(first),
        type |-> IF NLt(first, Zero) THEN "expense" ELSE "income"]

\* row[typeColumn] when the schema has a type column
TypeCell(headers, values, typeColumn) ==
  IF typeColumn # "" THEN RowGet(headers, values, typeColumn) ELSE ""

\* parseAmount(row[amountColumns[k]]) when the schema has a k-th amount column
AmountCell(headers, values, amountColumns, k) ==
  IF k <= Len(amountColumns)
  THEN parseAmount(RowGet(headers, values, amountColumns[k])) ELSE Zero

extractAmount(headers, values, amountColumns, typeColumn) ==
  AmountOfCells(TypeCell(headers, values, typeColumn),
                ToLowerCase(TypeCell(headers, values, typeColumn)),
                Len(amountColumns),
                AmountCell(headers, values, amountColumns, 1),
                AmountCell(headers, values, amountColumns, 2))

\* the leading tokens extractMerchantName strips, in the order of the regex
TypeTokens ==
  <<"debit", "credit", "ach", "check", "transfer", "payment", "withdrawal", "deposit">>

\* replace(/^(DEBIT|CREDIT|...)\s*/i, '')
StripTypeToken(s) ==
  LET hits == {k \in 1..Len(TypeTokens) :
                 ToLowerCase(SubSeq(s, 1, IF Len(TypeTokens[k]) <= Len(s)
                                          THEN Len(TypeTokens[k]) ELSE Len(s)))
                   = TypeTokens[k]}
  IN IF hits = {} THEN s
     ELSE LET first == CHOOSE k \in hits : \A j \in hits : k <= j
          IN TrimStart(SubSeq(s, Len(TypeTokens[first]) + 1, Len(s)))

\* replace(/\d{4,}/g, '')
RECURSIVE StripLongNumbers(_, _)
StripLongNumbers(s, k) ==
  IF k > Len(s) THEN ""
  ELSE LET run == DigitRun(s, k)
       IN IF run >= 4 THEN StripLongNumbers(s, k + run)
          ELSE IF run > 0 THEN SubSeq(s, k, k + run - 1) \o StripLongNumbers(s, k + run)
          ELSE CharAt(s, k) \o StripLongNumbers(s, k + 1)

\* replace(/#\d+/g, '')
RECURSIVE StripReferences(_, _)
StripReferences(s, k) ==
  IF k > Len(s) THEN ""
  ELSE IF CharAt(s, k) = "#" /\ DigitRun(s, k + 1) > 0
  THEN StripReferences(s, k + 1 + DigitRun(s, k + 1))
  ELSE CharAt(s, k) \o StripReferences(s, k + 1)

\* split(/\s+/)
RECURSIVE SplitBlanksFrom(_, _, _)
SplitBlanksFrom(s, k, current) ==
  IF k > Len(s) THEN <<current>>
  ELSE IF IsSpace(CharAt(s, k))
  THEN IF IsSpace(CharAt(s, k + 1)) THEN SplitBlanksFrom(s, k + 1, current)
       ELSE <<current>> \o SplitBlanksFrom(s, k + 1, "")
  ELSE SplitBlanksFrom(s, k + 1, current \o CharAt(s, k))

\* .slice(0, 3).join(' ')
FirstThreeWords(words) ==
  Join(SubSeq(words, 1, IF Len(words) < 3 THEN Len(words) ELSE 3), " ")

extractMerchantName(description) ==
  FirstThreeWords(SplitBlanksFrom(
    Trim(StripReferences(StripLongNumbers(StripTypeToken(description), 1), 1)), 1, ""))

\* a returned transaction, a returned null, or a thrown Error
Returned(transaction) == [kind |-> "transaction", transaction |-> transaction, message |-> ""]
ReturnedNull == [kind |-> "null", transaction |-> <<>>, message |-> ""]
Thrown(message) == [kind |-> "throw", transaction |-> <<>>, message |-> message]

\* the body of parseTransaction that stores the amount as extractAmount returns it
TransactionOfRawAmount(date, description, extracted, lineNumber) ==
  IF date.isNull THEN Thrown("Fecha no encontrada o inválida")
  ELSE IF description = "" THEN Thrown("Descripción no encontrada")
  ELSE IF NEq(extracted.amount, Zero) THEN ReturnedNull
  ELSE Returned([id |-> "imported-" \o ToString(now) \o "-" \o ToString(lineNumber),
                 accountId |-> "",
                 date |-> date.time,
                 description |-> description,
                 amount |-> extracted.amount,
                 type |-> extracted.type,
                 category |-> "other",
                 isRecurring |-> FALSE,
                 merchantName |-> extractMerchantName(description)])

\* the body of parseTransaction that raises on a zero amount
TransactionOfZeroThrows(date, description, extracted, lineNumber) ==
  IF date.isNull THEN Thrown("Fecha no encontrada o inválida")
  ELSE IF description = "" THEN Thrown("Descripción no encontrada")
  ELSE IF NEq(extracted.amount, Zero) THEN Thrown("Monto inválido")
  ELSE Returned([id |-> "imported-" \o ToString(now) \o "-" \o ToString(lineNumber),
                 accountId |-> "",
                 date |-> date.time,
                 description |-> description,
                 amount |-> MathAbs(extracted.amount),
                 type |-> extracted.type,
                 category |-> "other",
                 isRecurring |-> FALSE,
                 merchantName |-> extractMerchantName(description)])

\* the body of parseTransaction on the date, the description and the amount
\* it extracted
TransactionOf(date, description, extracted, lineNumber) ==
  IF date.isNull THEN Thrown("Fecha no encontrada o inválida")
  ELSE IF description = "" THEN Thrown("Descripción no encontrada")
  ELSE IF NEq(extracted.amount, Zero) THEN ReturnedNull
  ELSE Returned([id |-> "imported-" \o ToString(now) \o "-" \o ToString(lineNumber),
                 accountId |-> "",
                 date |-> date.time,
                 description |-> description,
                 amount |-> MathAbs(extracted.amount),
                 type |-> extracted.type,
                 category |-> "other",
                 isRecurring |-> FALSE,
                 merchantName |-> extractMerchantName(description)])

parseTransaction(headers, values, pattern, lineNumber) ==
  TransactionOf(extractDate(headers, values, pattern.dateColumns),
                extractDescription(headers, values, pattern.descriptionColumns),
                extractAmount(headers, values, pattern.amountColumns, pattern.typeColumn),
                lineNumber)

-----------------------------------------------------------------------------
(* FileImportService.importCSV and validateFile *)

IsNonBlank(line) == Trim(line) # ""

\* fileContent.split('\n').filter(line => line.trim())
NonBlankLines(fileContent) == SelectSeq(Split(fileContent, "\n"), IsNonBlank)

\* one pass of the row loop of importCSV: the outcome for lines[i] (0-based i,
\* as in the code): a row of fewer than two fields is skipped, otherwise the
\* outcome of parseTransaction
importRow(lines, headers, bankPattern, i) ==
  LET values == parseCSVLine(lines[i + 1])
  IN IF Len(values) < 2 THEN ReturnedNull
     ELSE parseTransaction(headers, values, bankPattern, i)

IsTransaction(o) == o.outcome.kind = "transaction"
IsThrown(o) == o.outcome.kind = "throw"

\* a row loop that puts each transaction before the ones of earlier rows
CollectRowsNewestFirst(outcomes) ==
  [transactions |-> [j \in 1..Len(SelectSeq(outcomes, IsTransaction)) |->
                       SelectSeq(outcomes, IsTransaction)[
                         Len(SelectSeq(outcomes, IsTransaction)) + 1 - j].outcome.transaction],
   errors |-> [j \in 1..Len(SelectSeq(outcomes, IsThrown)) |->
                 "Línea " \o ToString(SelectSeq(outcomes, IsThrown)[j].i + 1) \o ": "
                   \o SelectSeq(outcomes, IsThrown)[j].outcome.message]]

\* the row loop of importCSV, i = 1 .. lines.length - 1: transactions are
\* pushed and errors are pushed in row order
CollectRows(outcomes) ==
  [transactions |-> [j \in 1..Len(SelectSeq(outcomes, IsTransaction)) |->
                       SelectSeq(outcomes, IsTransaction)[j].outcome.transaction],
   errors |-> [j \in 1..Len(SelectSeq(outcomes, IsThrown)) |->
                 "Línea " \o ToString(SelectSeq(outcomes, IsThrown)[j].i + 1) \o ": "
                   \o SelectSeq(outcomes, IsThrown)[j].outcome.message]]

importRows(lines, headers, bankPattern) ==
  CollectRows([i \in 1..(Len(lines) - 1) |->
                 [outcome |-> importRow(lines, headers, bankPattern, i), i |-> i]])

\* the schema importCSV resolves from the header row and the optional hint
\* ("" is an absent hint)
resolveBankPattern(headers, bankName) ==
  IF bankName # "" THEN detectBankPattern(headers, bankName) ELSE autoDetectBank(headers)

\* importCSV that goes on to the rows when no schema is resolved
importSchemaNoCheck(lines, headers, bankPattern) ==
  importRows(lines, headers,
    IF bankPattern = NoPattern THEN BANK_PATTERNS.wellsFargo ELSE bankPattern)

\* importCSV from the resolved schema on: the "not recognised" result, or the
\* row loop
importSchema(lines, headers, bankPattern) ==
  IF bankPattern = NoPattern
  THEN [transactions |-> <<>>,
        errors |-> <<"Formato de banco no reconocido. Por favor selecciona el banco manualmente.">>]
  ELSE importRows(lines, headers, bankPattern)

\* importCSV from the header row on
importHeaders(lines, headers, bankName) ==
  importSchema(lines, headers, resolveBankPattern(headers, bankName))

\* importCSV on the non-blank lines of the file
importLines(lines, bankName) ==
  IF Len(lines) < 2
  THEN [transactions |-> <<>>, errors |-> <<"Archivo vacío o sin datos">>]
  ELSE importHeaders(lines, parseCSVLine(lines[1]), bankName)

importCSV(fileContent, bankName) == importLines(NonBlankLines(fileContent), bankName)

validateFile(fileContent) ==
  LET lines == NonBlankLines(fileContent)
  IN IF Len(lines) < 2
     THEN [valid |-> FALSE, error |-> "El archivo está vacío o no tiene suficientes datos"]
     ELSE IF Len(parseCSVLine(lines[1])) < 2
     THEN [valid |-> FALSE, error |-> "El archivo no tiene suficientes columnas"]
     ELSE [valid |-> TRUE, error |-> ""]

-----------------------------------------------------------------------------
(* Writing a CSV line: the inverse the quote rules of parseCSVLine answer to *)

RECURSIVE DoubleQuotes(_)
DoubleQuotes(s) ==
  IF Len(s) = 0 THEN ""
  ELSE (IF CharAt(s, 1) = "\"" THEN "\"\"" ELSE CharAt(s, 1))
       \o DoubleQuotes(SubSeq(s, 2, Len(s)))

NeedsQuotes(field) == Includes(field, ",") \/ Includes(field, "\"")

\* a field as a CSV writer emits it; wrap asks for quotes around plain fields too
EncodeField(field, wrap) ==
  IF wrap \/ NeedsQuotes(field) THEN "\"" \o DoubleQuotes(field) \o "\"" ELSE field

EncodeLine(fields, wrap) ==
  Join([k \in 1..Len(fields) |-> EncodeField(fields[k], wrap)], ",")

FieldAlphabet == {"a", ",", "\"", " "}

\* the fields a writer is given: text with commas and quotes, and padded text
GeneratedFields == StringsUpTo({"a", ",", "\""}, MaxFieldLen) \cup {" a", "a "}

-----------------------------------------------------------------------------
(* IntelligenceService.categorizeTransaction *)

\* type TransactionCategory
TransactionCategories ==
  {"food", "transportation", "entertainment", "utilities", "rent", "healthcare",
   "shopping", "education", "salary", "investment", "other"}

\* the categories the cascade tests, in its order, and the keywords of each
CategoryOrder ==
  <<"food", "transportation", "entertainment", "utilities", "rent", "healthcare",
    "shopping", "salary">>

CategoryKeywords ==
  [food |-> {"restaurant", "food", "cafe", "coffee", "pizza", "burger", "grocery",
             "supermarket", "market"},
   transportation |-> {"uber", "lyft", "gas", "fuel", "parking", "transit", "metro", "bus"},
   entertainment |-> {"netflix", "spotify", "hulu", "disney", "hbo", "movie", "theater",
                      "concert", "game"},
   utilities |-> {"electric", "water", "gas utility", "internet", "phone", "cable"},
   rent |-> {"rent", "lease", "mortgage"},
   healthcare |-> {"pharmacy", "doctor", "hospital", "medical", "health"},
   shopping |-> {"amazon", "walmart", "target", "store", "shop"},
   salary |-> {"salary", "payroll", "direct deposit", "payment received"}]

\* the positions in CategoryOrder of the categories with a keyword in text
MatchedCategories(text) ==
  {k \in 1..Len(CategoryOrder) :
     \E kw \in CategoryKeywords[CategoryOrder[k]] : Includes(text, kw)}

\* a categorizer that returns the last category of the order that matches
categorizeLastMatch(description, merchantName) ==
  LET hits == MatchedCategories(ToLowerCase(description \o " " \o merchantName))
  IN IF hits = {} THEN "other"
     ELSE CategoryOrder[CHOOSE k \in hits : \A j \in hits : j <= k]

\* a categorizer with rules for education and investment only
categorizeByCategoryName(description, merchantName) ==
  LET text == ToLowerCase(description \o " " \o merchantName)
  IN IF Includes(text, "education") THEN "education"
     ELSE IF Includes(text, "investment") THEN "investment"
     ELSE "other"

categorizeTransaction(description, merchantName) ==
  LET text == ToLowerCase(description \o " " \o merchantName)
  IN IF \/ Includes(text, "restaurant") \/ Includes(text, "food")
        \/ Includes(text, "cafe") \/ Includes(text, "coffee")
        \/ Includes(text, "pizza") \/ Includes(text, "burger")
        \/ Includes(text, "grocery") \/ Includes(text, "supermarket")
        \/ Includes(text, "market")
     THEN "food"
     ELSE IF \/ Includes(text, "uber") \/ Includes(text, "lyft")
             \/ Includes(text, "gas") \/ Includes(text, "fuel")
             \/ Includes(text, "parking") \/ Includes(text, "transit")
             \/ Includes(text, "metro") \/ Includes(text, "bus")
     THEN "transportation"
     ELSE IF \/ Includes(text, "netflix") \/ Includes(text, "spotify")
             \/ Includes(text, "hulu") \/ Includes(text, "disney")
             \/ Includes(text, "hbo") \/ Includes(text, "movie")
             \/ Includes(text, "theater") \/ Includes(text, "concert")
             \/ Includes(text, "game")
     THEN "entertainment"
     ELSE IF \/ Includes(text, "electric") \/ Includes(text, "water")
             \/ Includes(text, "gas utility") \/ Includes(text, "internet")
             \/ Includes(text, "phone") \/ Includes(text, "cable")
     THEN "utilities"
     ELSE IF \/ Includes(text, "rent") \/ Includes(text, "lease")
             \/ Includes(text, "mortgage")
     THEN "rent"
     ELSE IF \/ Includes(text, "pharmacy") \/ Includes(text, "doctor")
             \/ Includes(text, "hospital") \/ Includes(text, "medical")
             \/ Includes(text, "health")
     THEN "healthcare"
     ELSE IF \/ Includes(text, "amazon") \/ Includes(text, "walmart")
             \/ Includes(text, "target") \/ Includes(text, "store")
             \/ Includes(text, "shop")
     THEN "shopping"
     ELSE IF \/ Includes(text, "salary") \/ Includes(text, "payroll")
             \/ Includes(text, "direct deposit")
             \/ Includes(text, "payment received")
     THEN "salary"
     ELSE "other"

\* the keywords of the cascade, as bank statements spell them
StatementKeywords ==
  {"RESTAURANT", "FOOD", "CAFE", "COFFEE", "PIZZA", "BURGER", "GROCERY",
   "SUPERMARKET", "MARKET", "UBER", "LYFT", "GAS", "FUEL", "PARKING",
   "TRANSIT", "METRO", "BUS", "NETFLIX", "SPOTIFY", "HULU", "DISNEY", "HBO",
   "MOVIE", "THEATER", "CONCERT", "GAME", "ELECTRIC", "WATER", "GAS UTILITY",
   "INTERNET", "PHONE", "CABLE", "RENT", "LEASE", "MORTGAGE", "PHARMACY",
   "DOCTOR", "HOSPITAL", "MEDICAL", "HEALTH", "AMAZON", "WALMART", "TARGET",
   "STORE", "SHOP", "SALARY", "PAYROLL", "DIRECT DEPOSIT", "PAYMENT RECEIVED"}

StatementDescriptions ==
  StatementKeywords
  \cup {"STARBUCKS STORE #12345", "STARBUCKS #1", "NETFLIX.COM",
        "RANDOM XYZ CORP", "ACME", "Whole Foods Market", "Shell Gas Station",
        "EDUCATION", "COLLEGE TUITION", "VANGUARD INVESTMENT", "",
        "AMAZON PHARMACY", "PARKING AT RESTAURANT", "RENT PAYMENT RECEIVED",
        "DIRECT"}

\* merchant names; "" is the absent (undefined) second argument
StatementMerchants == {"", "Starbucks", "STARBUCKS", "Netflix", "Acme Corp", "Deposit"}

-----------------------------------------------------------------------------
(* Helpers of the analysis code: template literals, reduce, Map grouping *)

RECURSIVE PadZeros(_, _)
PadZeros(s, width) == IF Len(s) >= width THEN s ELSE PadZeros("0" \o s, width)

\* the digits of toFixed from the rounded value scaled by 10^digits
ToFixedOf(negative, scaled, digits) ==
  (IF negative THEN "-" ELSE "") \o ToString(scaled \div Pow10(digits))
    \o (IF digits = 0 THEN ""
        ELSE "." \o PadZeros(ToString(scaled % Pow10(digits)), digits))

\* Number.prototype.toFixed on the exact value: the nearest multiple of
\* 10^-digits, a tie going to the larger magnitude
toFixed(x, digits) ==
  IF IsNaN(x) THEN "NaN"
  ELSE IF ~IsFinite(x) THEN (IF x.n > 0 THEN "Infinity" ELSE "-Infinity")
  ELSE ToFixedOf(x.n < 0, (2 * AbsInt(x.n) * Pow10(digits) + x.d) \div (2 * x.d), digits)

\* `${Date.now()}`
DateNow == ToString(now)

\* an optional number that is absent
Undefined == [k |-> "undefined", n |-> 0, d |-> 1]

\* txs.map((t) => t.amount)
Amounts(txs) == [k \in 1..Len(txs) |-> txs[k].amount]

\* txs.reduce((sum, t) => sum + t.amount, 0)
SumAmounts(txs) == Sum(Amounts(txs))

\* the elements of keys at the given indices
KeysAt(keys, firsts) == [i \in 1..Len(firsts) |-> keys[firsts[i]]]

\* the keys of a Map filled in the order of keys: each distinct key once, in
\* the order of its first occurrence
MapKeys(keys) ==
  KeysAt(keys, SelectSeq([k \in 1..Len(keys) |-> k],
                         LAMBDA k : \A j \in 1..(k - 1) : keys[j] # keys[k]))

\* the concatenation of a sequence of sequences
RECURSIVE Flatten(_)
Flatten(seqs) ==
  IF Len(seqs) = 0 THEN <<>>
  ELSE Flatten(SubSeq(seqs, 1, Len(seqs) - 1)) \o seqs[Len(seqs)]

IsExpense(t) == t.type = "expense"

\* t.merchantName || t.description
MerchantOf(t) == IF t.merchantName # "" THEN t.merchantName ELSE t.description

-----------------------------------------------------------------------------
(* IntelligenceService.generateInsights and its detectors *)

\* a FinancialInsight; category "" and potentialSavings Undefined are absent
Insight(id, type, title, description, category, potentialSavings, actionable, priority) ==
  [id |-> id, type |-> type, title |-> title, description |-> description,
   category |-> category, potentialSavings |-> potentialSavings,
   actionable |-> actionable, priority |-> priority, createdAt |-> now]

getCategoryName(category) ==
  LET names == [food |-> "comida", transportation |-> "transporte",
                entertainment |-> "entretenimiento", utilities |-> "servicios",
                rent |-> "renta", healthcare |-> "salud", shopping |-> "compras",
                education |-> "educación", salary |-> "salario",
                investment |-> "inversión", other |-> "otros"]
  IN IF category \in DOMAIN names THEN names[category] ELSE category

\* amounts.reduce((sum, a) => sum + a, 0) / amounts.length
Average(amounts) == NDiv(Sum(amounts), Int2Num(Len(amounts)))

\* amounts.reduce((sum, a) => sum + Math.pow(a - avg, 2), 0) / amounts.length
Variance(amounts, avg) ==
  NDiv(Sum([k \in 1..Len(amounts) |->
              NMul(NSub(amounts[k], avg), NSub(amounts[k], avg))]),
       Int2Num(Len(amounts)))

\* an entry of merchantMap pushed whatever the size of its group
RecurringOfAnySize(merchant, amounts, avgAmount) ==
  [merchantName |-> merchant, amount |-> avgAmount, frequency |-> Len(amounts),
   pushed |-> NLt(Variance(amounts, avgAmount), NMul(avgAmount, Num(1, 10)))]

\* one entry of merchantMap: the pattern it would push, and whether it does
RecurringOf(merchant, amounts, avgAmount) ==
  [merchantName |-> merchant, amount |-> avgAmount, frequency |-> Len(amounts),
   pushed |-> /\ Len(amounts) >= 2
              /\ NLt(Variance(amounts, avgAmount), NMul(avgAmount, Num(1, 10)))]

\* merchantMap.get(merchant)
MerchantGroup(txs, merchant) == SelectSeq(txs, LAMBDA t : MerchantOf(t) = merchant)

MerchantEntries(txs, merchants) ==
  [i \in 1..Len(merchants) |->
     RecurringOf(merchants[i], Amounts(MerchantGroup(txs, merchants[i])),
                 Average(Amounts(MerchantGroup(txs, merchants[i]))))]

IsPushed(entry) == entry.pushed

RecurringPatterns(entries) ==
  [i \in 1..Len(entries) |->
     [merchantName |-> entries[i].merchantName, amount |-> entries[i].amount,
      frequency |-> entries[i].frequency]]

identifyRecurringTransactions(txs) ==
  RecurringPatterns(SelectSeq(
    MerchantEntries(txs, MapKeys([k \in 1..Len(txs) |-> MerchantOf(txs[k])])),
    IsPushed))

\* recurring.reduce((sum, r) => sum + r.amount, 0)
SumPatterns(recurring) == Sum([k \in 1..Len(recurring) |-> recurring[k].amount])

\* expenses of a category dated since a time
CategoryExpensesSince(txs, category, since) ==
  SelectSeq(txs, LAMBDA t : IsExpense(t) /\ t.category = category /\ t.date >= since)

\* expenses of a category dated in [from, before)
CategoryExpensesBetween(txs, category, from, before) ==
  SelectSeq(txs, LAMBDA t : /\ IsExpense(t) /\ t.category = category
                            /\ t.date >= from /\ t.date < before)

\* transactions of a type dated since a time
TypeSince(txs, type, since) ==
  SelectSeq(txs, LAMBDA t : t.type = type /\ t.date >= since)

SmallFoodInsight(count, smallTotal) ==
  IF count > 15
  THEN <<Insight("insight-small-food-" \o DateNow, "suggestion",
                 "Gastos pequeños frecuentes en comida",
                 "Has hecho " \o ToString(count)
                   \o " compras pequeñas de comida este mes ($" \o toFixed(smallTotal, 2)
                   \o "). Considera preparar comidas en casa o comprar café en termo.",
                 "food", NMul(smallTotal, Num(6, 10)), TRUE, "medium")>>
  ELSE <<>>

IsSmall(t) == NLt(t.amount, Int2Num(15))

SubscriptionInsights(recurring) ==
  [k \in 1..Len(recurring) |->
     Insight("insight-subscription-" \o DateNow \o "-" \o recurring[k].merchantName,
             "suggestion", "Posible suscripción no utilizada",
             "Tienes un cargo recurrente de $" \o toFixed(recurring[k].amount, 2)
               \o " en " \o recurring[k].merchantName \o ". ¿Realmente lo estás usando?",
             "entertainment", NMul(recurring[k].amount, Int2Num(12)), TRUE, "high")]

ShoppingInsight(total) ==
  IF NGt(total, Int2Num(500))
  THEN <<Insight("insight-excessive-shopping-" \o DateNow, "warning",
                 "Gasto alto en compras",
                 "Has gastado $" \o toFixed(total, 2)
                   \o " en compras este mes. Considera establecer un presupuesto mensual.",
                 "shopping", NMul(total, Num(3, 10)), TRUE, "high")>>
  ELSE <<>>

\* one pass of targetCategories.forEach
UnnecessaryIn(category, categoryExpenses) ==
  IF Len(categoryExpenses) = 0 THEN <<>>
  ELSE (IF category = "food"
        THEN SmallFoodInsight(Len(SelectSeq(categoryExpenses, IsSmall)),
                              SumAmounts(SelectSeq(categoryExpenses, IsSmall)))
        ELSE <<>>)
       \o (IF category = "entertainment"
           THEN SubscriptionInsights(identifyRecurringTransactions(categoryExpenses))
           ELSE <<>>)
       \o (IF category = "shopping"
           THEN ShoppingInsight(SumAmounts(categoryExpenses))
           ELSE <<>>)

targetCategories == <<"entertainment", "shopping", "food">>

detectUnnecessaryExpenses(txs) ==
  Flatten([c \in 1..Len(targetCategories) |->
             UnnecessaryIn(targetCategories[c],
                           CategoryExpensesSince(txs, targetCategories[c], subMonths(now, 1)))])

RecurringExpensesInsight(totalRecurring) ==
  IF NGt(totalRecurring, Zero)
  THEN <<Insight("insight-recurring-" \o DateNow, "suggestion",
                 "Gastos recurrentes identificados",
                 "Tienes $" \o toFixed(totalRecurring, 2)
                   \o " en gastos recurrentes mensuales. Revisa si todos son necesarios.",
                 "", Undefined, TRUE, "medium")>>
  ELSE <<>>

detectRecurringExpenses(txs) ==
  RecurringExpensesInsight(
    SumPatterns(identifyRecurringTransactions(SelectSeq(txs, IsExpense))))

\* the unusual-spending test without its condition on the average
UnusualInsightAnyAverage(category, thisMonthTotal, average) ==
  IF NGt(thisMonthTotal, NMul(average, Num(3, 2)))
  THEN <<Insight("insight-unusual-" \o category \o "-" \o DateNow, "warning",
                 "Gasto elevado en " \o getCategoryName(category),
                 "Has gastado $" \o toFixed(thisMonthTotal, 2) \o " en "
                   \o getCategoryName(category) \o " este mes, $"
                   \o toFixed(NSub(thisMonthTotal, average), 2) \o " más que tu promedio.",
                 category, Undefined, TRUE, "high")>>
  ELSE <<>>

UnusualInsight(category, thisMonthTotal, average) ==
  IF NGt(thisMonthTotal, NMul(average, Num(3, 2))) /\ NGt(average, Zero)
  THEN <<Insight("insight-unusual-" \o category \o "-" \o DateNow, "warning",
                 "Gasto elevado en " \o getCategoryName(category),
                 "Has gastado $" \o toFixed(thisMonthTotal, 2) \o " en "
                   \o getCategoryName(category) \o " este mes, $"
                   \o toFixed(NSub(thisMonthTotal, average), 2) \o " más que tu promedio.",
                 category, Undefined, TRUE, "high")>>
  ELSE <<>>

\* one pass of categories.forEach
UnusualIn(txs, category, thisMonth, lastMonth, twoMonthsAgo) ==
  UnusualInsight(category,
    SumAmounts(CategoryExpensesSince(txs, category, thisMonth)),
    NDiv(NAdd(SumAmounts(CategoryExpensesBetween(txs, category, lastMonth, thisMonth)),
              SumAmounts(CategoryExpensesBetween(txs, category, twoMonthsAgo, lastMonth))),
         Int2Num(2)))

unusualCategories ==
  <<"food", "transportation", "entertainment", "utilities", "shopping", "healthcare">>

detectUnusualSpending(txs) ==
  Flatten([c \in 1..Len(unusualCategories) |->
             UnusualIn(txs, unusualCategories[c], startOfMonth(now),
                       startOfMonth(subMonths(now, 1)), startOfMonth(subMonths(now, 2)))])

\* the budget detectors with the warning from a ratio of 0.9 on
BudgetInsightsFromNinety(totalExpenses, totalIncome) ==
  (IF NGt(totalIncome, Zero) /\ NGe(NDiv(totalExpenses, totalIncome), Num(9, 10))
   THEN <<Insight("insight-high-spending-" \o DateNow, "warning",
                  "Nivel de gastos muy alto",
                  "Estás gastando "
                    \o toFixed(NMul(NDiv(totalExpenses, totalIncome), Int2Num(100)), 0)
                    \o "% de tus ingresos. Intenta ahorrar al menos 10-20%.",
                  "", Undefined, TRUE, "high")>>
   ELSE <<>>)
  \o (IF NGt(totalIncome, Zero)
      THEN <<Insight("insight-budget-rule-" \o DateNow, "suggestion",
                     "Aplica la regla 50/30/20",
                     "Para tus ingresos de $" \o toFixed(totalIncome, 2)
                       \o ", intenta: $" \o toFixed(NMul(totalIncome, Num(5, 10)), 2)
                       \o " en necesidades, $" \o toFixed(NMul(totalIncome, Num(3, 10)), 2)
                       \o " en deseos, y $" \o toFixed(NMul(totalIncome, Num(2, 10)), 2)
                       \o " en ahorros.",
                     "", Undefined, TRUE, "medium")>>
      ELSE <<>>)

BudgetInsights(totalExpenses, totalIncome) ==
  (IF NGt(totalIncome, Zero) /\ NGt(NDiv(totalExpenses, totalIncome), Num(9, 10))
   THEN <<Insight("insight-high-spending-" \o DateNow, "warning",
                  "Nivel de gastos muy alto",
                  "Estás gastando "
                    \o toFixed(NMul(NDiv(totalExpenses, totalIncome), Int2Num(100)), 0)
                    \o "% de tus ingresos. Intenta ahorrar al menos 10-20%.",
                  "", Undefined, TRUE, "high")>>
   ELSE <<>>)
  \o (IF NGt(totalIncome, Zero)
      THEN <<Insight("insight-budget-rule-" \o DateNow, "suggestion",
                     "Aplica la regla 50/30/20",
                     "Para tus ingresos de $" \o toFixed(totalIncome, 2)
                       \o ", intenta: $" \o toFixed(NMul(totalIncome, Num(5, 10)), 2)
                       \o " en necesidades, $" \o toFixed(NMul(totalIncome, Num(3, 10)), 2)
                       \o " en deseos, y $" \o toFixed(NMul(totalIncome, Num(2, 10)), 2)
                       \o " en ahorros.",
                     "", Undefined, TRUE, "medium")>>
      ELSE <<>>)

suggestBudgetOptimizations(txs) ==
  BudgetInsights(SumAmounts(TypeSince(txs, "expense", startOfMonth(now))),
                 SumAmounts(TypeSince(txs, "income", startOfMonth(now))))

\* format(t.date, 'yyyy-MM')
MonthKey(t) == ToString(getFullYear(t.date)) \o "-" \o PadZeros(ToString(getMonth(t.date)), 2)

\* grouped[monthKey] = (grouped[monthKey] || 0) + t.amount, over the
\* transactions of one month in order
RECURSIVE MonthTotal(_)
MonthTotal(amounts) ==
  IF Len(amounts) = 0 THEN Zero
  ELSE NAdd(ZeroIfNaN(MonthTotal(SubSeq(amounts, 1, Len(amounts) - 1))),
            amounts[Len(amounts)])

MonthGroup(txs, monthKey) == SelectSeq(txs, LAMBDA t : MonthKey(t) = monthKey)

MonthTotals(txs, monthKeys) ==
  [i \in 1..Len(monthKeys) |-> MonthTotal(Amounts(MonthGroup(txs, monthKeys[i])))]

\* Object.values(this.groupByMonth(transactions))
groupByMonth(txs) == MonthTotals(txs, MapKeys([k \in 1..Len(txs) |-> MonthKey(txs[k])]))

\* analyzeIncomeOpportunities without its return on no income
IncomeOpportunityInsightsUnguarded(count, incomeValues) ==
  IF count < 5
  THEN <<Insight("insight-additional-income-" \o DateNow, "suggestion",
                 "Considera ingresos adicionales",
                 "Podrías mejorar tu situación financiera con un trabajo freelance, venta de artículos no usados, o inversiones.",
                 "", Undefined, TRUE, "low")>>
  ELSE <<>>

IncomeOpportunityInsights(count, incomeValues) ==
  IF count = 0 THEN <<>>
  ELSE (IF /\ Len(incomeValues) >= 2
           /\ NGt(Variance(incomeValues, Average(incomeValues)),
                  NMul(Average(incomeValues), Num(3, 10)))
        THEN <<Insight("insight-income-variability-" \o DateNow, "suggestion",
                       "Ingresos variables detectados",
                       "Tus ingresos varían significativamente. Considera buscar fuentes de ingreso más estables o crear un fondo de emergencia.",
                       "", Undefined, TRUE, "medium")>>
        ELSE <<>>)
       \o (IF count < 5
           THEN <<Insight("insight-additional-income-" \o DateNow, "suggestion",
                          "Considera ingresos adicionales",
                          "Podrías mejorar tu situación financiera con un trabajo freelance, venta de artículos no usados, o inversiones.",
                          "", Undefined, TRUE, "low")>>
           ELSE <<>>)

analyzeIncomeOpportunities(txs) ==
  IncomeOpportunityInsights(Len(TypeSince(txs, "income", subMonths(now, 3))),
                            groupByMonth(TypeSince(txs, "income", subMonths(now, 3))))

RecurringIncomeInsight(sources) ==
  IF Len(sources) > 0
  THEN <<Insight("insight-recurring-income-" \o DateNow, "achievement",
                 "Ingresos recurrentes estables",
                 "Tienes $" \o toFixed(SumPatterns(sources), 2)
                   \o " en ingresos recurrentes mensuales. ¡Buen trabajo!",
                 "", Undefined, FALSE, "low")>>
  ELSE <<>>

detectIncomePatterns(txs) ==
  RecurringIncomeInsight(
    identifyRecurringTransactions(TypeSince(txs, "income", subMonths(now, 3))))

priorityOrder == [high |-> 3, medium |-> 2, low |-> 1]

\* the place a stable sort gives x among elements already in order: after
\* every element the comparator does not put behind it
InsertByPriority(sorted, x) ==
  LET k == Cardinality({j \in 1..Len(sorted) :
                          priorityOrder[x.priority] - priorityOrder[sorted[j].priority] <= 0})
  IN SubSeq(sorted, 1, k) \o <<x>> \o SubSeq(sorted, k + 1, Len(sorted))

\* a sort that puts x before the elements of its own priority
InsertBeforeEquals(sorted, x) ==
  LET k == Cardinality({j \in 1..Len(sorted) :
                          priorityOrder[x.priority] - priorityOrder[sorted[j].priority] < 0})
  IN SubSeq(sorted, 1, k) \o <<x>> \o SubSeq(sorted, k + 1, Len(sorted))

RECURSIVE SortByPriorityUnstable(_)
SortByPriorityUnstable(list) ==
  IF Len(list) = 0 THEN <<>>
  ELSE InsertBeforeEquals(SortByPriorityUnstable(SubSeq(list, 1, Len(list) - 1)),
                          list[Len(list)])

\* insights.sort((a, b) => priorityOrder[b.priority] - priorityOrder[a.priority])
RECURSIVE SortByPriority(_)
SortByPriority(list) ==
  IF Len(list) = 0 THEN <<>>
  ELSE InsertByPriority(SortByPriority(SubSeq(list, 1, Len(list) - 1)), list[Len(list)])

generateInsights(txs) ==
  SortByPriority(detectUnnecessaryExpenses(txs) \o detectRecurringExpenses(txs)
                   \o detectUnusualSpending(txs) \o suggestBudgetOptimizations(txs)
                   \o analyzeIncomeOpportunities(txs) \o detectIncomePatterns(txs))

-----------------------------------------------------------------------------
(* useFinanceStore: the values the analysis operations store *)

\* insights the store's generateInsights builds from the spending patterns
PatternInsight(pattern) ==
  Insight("insight-" \o DateNow \o "-" \o pattern.category, "warning",
          "Gasto elevado en " \o pattern.category,
          "Has gastado más de lo habitual en " \o pattern.category \o " este mes",
          pattern.category, Undefined, TRUE, "high")

IsUnusual(pattern) == pattern.unusualActivity

newInsights(patterns) ==
  [k \in 1..Len(SelectSeq(patterns, IsUnusual)) |->
     PatternInsight(SelectSeq(patterns, IsUnusual)[k])]

CategoryGroup(txs, category) == SelectSeq(txs, LAMBDA t : t.category = category)

\* a pattern flagged unusual from a total of 1000 on
SpendingPatternOfAtLeast(category, total, txs) ==
  [category |-> category, averageMonthly |-> total, trend |-> "stable",
   unusualActivity |-> NGe(total, Int2Num(1000)),
   recurringExpenses |-> SelectSeq(txs, LAMBDA t : t.isRecurring)]

SpendingPatternOf(category, total, txs) ==
  [category |-> category, averageMonthly |-> total, trend |-> "stable",
   unusualActivity |-> NGt(total, Int2Num(1000)),
   recurringExpenses |-> SelectSeq(txs, LAMBDA t : t.isRecurring)]

SpendingPatternsOf(recentExpenses, categories) ==
  [i \in 1..Len(categories) |->
     SpendingPatternOf(categories[i],
                       SumAmounts(CategoryGroup(recentExpenses, categories[i])),
                       CategoryGroup(recentExpenses, categories[i]))]

RecentExpensePatterns(recentExpenses) ==
  SpendingPatternsOf(recentExpenses,
    MapKeys([k \in 1..Len(recentExpenses) |-> recentExpenses[k].category]))

\* patterns appended to the ones stored before
analyzeSpendingPatternsAppending(txs) ==
  spendingPatterns \o RecentExpensePatterns(TypeSince(txs, "expense", now - 30 * TicksPerDay))

\* the patterns analyzeSpendingPatterns stores
analyzeSpendingPatterns(txs) ==
  RecentExpensePatterns(TypeSince(txs, "expense", now - 30 * TicksPerDay))

IncomePatternOf(source, total) ==
  [source |-> source, averageMonthly |-> NDiv(total, Int2Num(3)),
   frequency |-> "monthly", consistency |-> 85]

IncomePatternsOf(recentIncome, sources) ==
  [i \in 1..Len(sources) |->
     IncomePatternOf(sources[i], SumAmounts(MerchantGroup(recentIncome, sources[i])))]

RecentIncomePatterns(recentIncome) ==
  IncomePatternsOf(recentIncome,
    MapKeys([k \in 1..Len(recentIncome) |-> MerchantOf(recentIncome[k])]))

\* the patterns analyzeIncomePatterns stores
analyzeIncomePatterns(txs) ==
  RecentIncomePatterns(TypeSince(txs, "income", now - 90 * TicksPerDay))

\* today.setHours(0, 0, 0, 0) and today.setHours(23, 59, 59, 999): the first
\* and the last instant of the day
StartOfDay(t) == DayOf(t) * TicksPerDay
EndOfDay(t) == StartOfDay(t) + TicksPerDay - 1

\* the days remaining without today
DaysRemainingAfterToday(today) ==
  DaysInMonth(getFullYear(today), getMonth(today)) - getDate(today)

\* daysInMonth - today.getDate() + 1
DaysRemaining(today) ==
  DaysInMonth(getFullYear(today), getMonth(today)) - getDate(today) + 1

\* expenses dated in [from, to]
ExpensesWithin(txs, from, to) ==
  SelectSeq(txs, LAMBDA t : IsExpense(t) /\ t.date >= from /\ t.date <= to)

\* incomePatterns.reduce((sum, p) => sum + p.averageMonthly, 0)
MonthlyIncome(patterns) == Sum([k \in 1..Len(patterns) |-> patterns[k].averageMonthly])

\* the DailyBudget object; today was set to the end of the day by setHours
DailyBudgetOf(today, dailyAvailable, todaySpent) ==
  [isNull |-> FALSE,
   date |-> EndOfDay(today),
   availableToSpend |-> dailyAvailable,
   spent |-> todaySpent,
   remaining |-> NSub(dailyAvailable, todaySpent),
   percentageUsed |-> NMul(NDiv(todaySpent, dailyAvailable), Int2Num(100))]

\* the budget calculateDailyBudget stores
calculateDailyBudget(txs, patterns) ==
  DailyBudgetOf(now,
    NDiv(NSub(MonthlyIncome(patterns),
              SumAmounts(ExpensesWithin(txs, startOfMonth(now), now))),
         Int2Num(DaysRemaining(now))),
    SumAmounts(ExpensesWithin(txs, StartOfDay(now), EndOfDay(now))))

-----------------------------------------------------------------------------
(* Initial store, screen and clock *)

NoCall == [op |-> "none"]

StoreInit ==
  /\ accounts = <<>>
  /\ transactions = <<>>
  /\ budgets = <<>>
  /\ insights = <<>>
  /\ dailyBudget = [isNull |-> TRUE]
  /\ spendingPatterns = <<>>
  /\ incomePatterns = <<>>
  /\ isLoading = FALSE
  /\ error = ""

ScreenInit ==
  /\ importing = FALSE
  /\ selectedBank = ""

-----------------------------------------------------------------------------
(* parseCSVLine applied to the lines a CSV writer produces *)

InitCSVLine ==
  /\ StoreInit /\ ScreenInit /\ now = 0
  /\ \/ \E fields \in SeqsUpTo(GeneratedFields, MaxFields), wrap \in BOOLEAN :
          call = [op |-> "parseCSVLine", written |-> TRUE, fields |-> fields,
                  line |-> EncodeLine(fields, wrap)]
     \/ \E raw \in StringsUpTo(FieldAlphabet, MaxLineLen) :
          call = [op |-> "parseCSVLine", written |-> FALSE, fields |-> <<>>,
                  line |-> raw]
  /\ returned = FALSE
  /\ ret = <<>>

ParseCSVLine ==
  /\ call.op = "parseCSVLine"
  /\ ~returned
  /\ ret' = parseCSVLine(call.line)
  /\ returned' = TRUE
  /\ UNCHANGED <<call, storeVars, screenVars, now>>

NextCSVLine == ParseCSVLine

SpecCSVLine == InitCSVLine /\ [][NextCSVLine]_vars

\* the number of characters c among the first k of s
CountChar(s, c, k) == Cardinality({j \in 1..k : CharAt(s, j) = c})

\* commas with an even number of quote characters before them
UnquotedCommas(s) ==
  {k \in 1..Len(s) : CharAt(s, k) = "," /\ CountChar(s, "\"", k - 1) % 2 = 0}

\* C9: parseCSVLine splits only at commas outside quotes (the field count is
\* one more than the number of unquoted commas), returns a quoted field
\* holding commas as one field without its enclosing quotes, and turns each
\* doubled quote inside a quoted field into one quote character: the fields a
\* writer quoted come back, one for one, up to surrounding blanks.
C9_QuoteAware ==
  (returned /\ call.op = "parseCSVLine") =>
     /\ Len(ret) = 1 + Cardinality(UnquotedCommas(call.line))
     /\ call.written =>
          /\ Len(ret) = Len(call.fields)
          /\ \A k \in 1..Len(call.fields) : ret[k] = Trim(call.fields[k])

C9_Witness ==
  /\ returned /\ call.op = "parseCSVLine"
  /\ call.written
  /\ call.fields = <<"a,", "\"a">>
  /\ call.line = "\"a,\",\"\"\"a\""
  /\ ret = <<"a,", "\"a">>

-----------------------------------------------------------------------------
(* categorizeTransaction applied to statement descriptions *)

InitCategorize ==
  /\ StoreInit /\ ScreenInit /\ now = 0
  /\ \E description \in StatementDescriptions, merchantName \in StatementMerchants :
       call = [op |-> "categorizeTransaction", description |-> description,
               merchantName |-> merchantName]
  /\ returned = FALSE
  /\ ret = ""

CategorizeTransaction ==
  /\ call.op = "categorizeTransaction"
  /\ ~returned
  /\ ret' = categorizeTransaction(call.description, call.merchantName)
  /\ returned' = TRUE
  /\ UNCHANGED <<call, storeVars, screenVars, now>>

NextCategorize == CategorizeTransaction

SpecCategorize == InitCategorize /\ [][NextCategorize]_vars

Categorized(description, merchantName) ==
  /\ returned
  /\ call.op = "categorizeTransaction"
  /\ call.description = description
  /\ call.merchantName = merchantName

\* C2: categorizeTransaction("STARBUCKS STORE #12345", "Starbucks") is food,
\* categorizeTransaction("NETFLIX.COM") is entertainment and
\* categorizeTransaction("RANDOM XYZ CORP") is other.
C2_DocExamples ==
  /\ Categorized("STARBUCKS STORE #12345", "Starbucks") => ret = "food"
  /\ Categorized("NETFLIX.COM", "") => ret = "entertainment"
  /\ Categorized("RANDOM XYZ CORP", "") => ret = "other"

ClassifiedText == ToLowerCase(call.description \o " " \o call.merchantName)

\* category is the first of the order among the matched ones, other when
\* and only when none is matched
FirstOfCascade(hits, category) ==
  /\ hits = {} <=> category = "other"
  /\ hits # {} =>
        \E k \in hits : category = CategoryOrder[k] /\ \A j \in hits : k <= j

\* C22: categorizeTransaction returns the first category, in the order food,
\* transportation, entertainment, utilities, rent, healthcare, shopping,
\* salary, that has one of its keywords as a substring of the lowercased
\* concatenation of description and merchant name; it returns other iff no
\* keyword of the eight sets is such a substring.
C22_CategorizationCascade ==
  (returned /\ call.op = "categorizeTransaction") =>
     FirstOfCascade(MatchedCategories(ClassifiedText), ret)

C22_Witness ==
  /\ Categorized("AMAZON PHARMACY", "Netflix")
  /\ MatchedCategories(ClassifiedText) = {3, 6, 7}
  /\ ret = "entertainment"

-----------------------------------------------------------------------------
(* Schema detection applied to header rows and hints *)

\* the key columns the API documentation lists for each bank
CanonicalHeaders ==
  [bankOfAmerica |-> <<"Posted Date", "Payee", "Amount">>,
   chase |-> <<"Posting Date", "Description", "Type", "Amount">>,
   wellsFargo |-> <<"Date", "Description", "Amount">>,
   citi |-> <<"Date", "Description", "Debit", "Credit">>,
   capitalOne |-> <<"Transaction Date", "Description", "Debit", "Credit">>,
   amex |-> <<"Date", "Description", "Amount", "Card Member">>]

BankIds == {"bankOfAmerica", "chase", "wellsFargo", "citi", "capitalOne", "amex"}

HeaderRows ==
  {CanonicalHeaders[b] : b \in BankIds}
  \cup {<<"Status", "Date", "Description", "Debit", "Credit">>,
        <<"Date", "Description", "Amount", "Balance", "Check", "Memo">>,
        <<"Date", "Reference", "Amount", "Amex Card">>,
        <<"Wells Ref", "Memo">>,
        <<"Posted Date", "Payee", "Posting Date", "Amount">>,
        <<"Type", "Description", "Wells">>,
        <<"Status", "Transaction Date", "Debit", "Credit">>,
        <<"Transaction Date", "Debit", "Card Member">>,
        <<"Posted Date", "Payee", "Type", "Description", "Amount", "Amex">>,
        <<"Foo", "Bar">>,
        <<"When">>}

\* the ids the import screen passes, bank names as a person writes them, and
\* "" for no hint
ScreenHints == BankIds \cup {"auto"}
Hints ==
  ScreenHints
  \cup {"", "Bank of America", "Wells Fargo", "Capital One", "American Express",
        "CHASE", "my bank"}

InitDetect ==
  /\ StoreInit /\ ScreenInit /\ now = 0
  /\ \E headers \in HeaderRows, bankName \in Hints :
       call = [op |-> IF bankName = "" THEN "autoDetectBank" ELSE "detectBankPattern",
               headers |-> headers, bankName |-> bankName]
  /\ returned = FALSE
  /\ ret = NoPattern

AutoDetectBank ==
  /\ call.op = "autoDetectBank"
  /\ ~returned
  /\ ret' = autoDetectBank(call.headers)
  /\ returned' = TRUE
  /\ UNCHANGED <<call, storeVars, screenVars, now>>

DetectBankPattern ==
  /\ call.op = "detectBankPattern"
  /\ ~returned
  /\ ret' = detectBankPattern(call.headers, call.bankName)
  /\ returned' = TRUE
  /\ UNCHANGED <<call, storeVars, screenVars, now>>

NextDetect == AutoDetectBank \/ DetectBankPattern

SpecDetect == InitDetect /\ [][NextDetect]_vars

\* C3: without a hint, the canonical header row of each of the six banks is
\* detected as that bank's schema.
C3_SelfRecognition ==
  \A b \in BankIds :
    (returned /\ call.op = "autoDetectBank" /\ call.headers = CanonicalHeaders[b])
      => ret = BANK_PATTERNS[b]

\* the six header predicates of auto-detection, as the design states them
HeaderPredicate(b, headers) ==
  LET h == ToLowerCase(Join(headers, ","))
  IN CASE b = "bankOfAmerica" -> Includes(h, "posted date") /\ Includes(h, "payee")
       [] b = "chase" -> Includes(h, "posting date")
                         \/ (Includes(h, "type") /\ Includes(h, "description"))
       [] b = "wellsFargo" -> Includes(h, "wells")
                              \/ (Includes(h, "date") /\ Includes(h, "amount")
                                  /\ Len(headers) <= 5)
       [] b = "citi" -> Includes(h, "debit") /\ Includes(h, "credit")
                        /\ Includes(h, "status")
       [] b = "capitalOne" -> Includes(h, "transaction date")
                              /\ (Includes(h, "debit") \/ Includes(h, "credit"))
       [] b = "amex" -> Includes(h, "card member") \/ Includes(h, "amex")

DetectionOrder ==
  <<"bankOfAmerica", "chase", "wellsFargo", "citi", "capitalOne", "amex">>

\* the schema of the first bank in the detection order whose predicate holds
FirstMatch(headers) ==
  LET hits == {k \in 1..6 : HeaderPredicate(DetectionOrder[k], headers)}
  IN IF hits = {} THEN NoPattern
     ELSE BANK_PATTERNS[DetectionOrder[CHOOSE k \in hits : \A j \in hits : k <= j]]

MatchingBanks(headers) == {b \in BankIds : HeaderPredicate(b, headers)}

\* C21: when a header row satisfies the predicates of more than one bank,
\* autoDetectBank returns the schema of the earliest of them in the order
\* Bank of America, Chase, Wells Fargo, Citi, Capital One, American Express;
\* it returns null iff none of the six predicates holds.
C21_DetectionPrecedence ==
  (returned /\ call.op = "autoDetectBank") =>
     /\ ret = FirstMatch(call.headers)
     /\ ret = NoPattern <=> MatchingBanks(call.headers) = {}
     /\ \A k \in 1..6 :
          ret = BANK_PATTERNS[DetectionOrder[k]] =>
             /\ DetectionOrder[k] \in MatchingBanks(call.headers)
             /\ \A j \in 1..(k - 1) : DetectionOrder[j] \notin MatchingBanks(call.headers)

C21_Witness ==
  /\ returned /\ call.op = "autoDetectBank"
  /\ call.headers = <<"Status", "Transaction Date", "Debit", "Credit">>
  /\ MatchingBanks(call.headers) = {"citi", "capitalOne"}
  /\ ret = BANK_PATTERNS.citi

-----------------------------------------------------------------------------
(* importCSV applied to statement files *)

HeaderLines ==
  {"Posted Date,Payee,Amount",
   "Posting Date, Description, Type, Amount",
   "Date,Description,Amount",
   "Date,Description,Debit,Credit",
   "Transaction Date,Description,Debit,Credit",
   "Date,Description,Amount,Card Member",
   "Foo,Bar",
   ""}

\* data lines: a type column, two amount columns, one signed amount; a date
\* that is no date, an empty description, a zero amount, an amount that is
\* unparseable or empty, a single field
RowLines ==
  {"2024-01-15,STARBUCKS #1,DEBIT,-42.10",
   "2024-01-16,PAYROLL,CREDIT,1500.00",
   "n/a,COFFEE,DEBIT,-3.00",
   "2024-01-17,,12.50,",
   "2024-01-18,\"SHOP, INC\",12.50,",
   "2024-01-19,REFUND,,20.00",
   "01/20/2024,UBER,(7.25)",
   "2024-01-22,ZERO,0.00,0.00",
   "2024-01-23,VOID,n/a,",
   "lonely",
   ""}

\* the bank a file is imported with: a hint goes with files of at most one data
\* row, longer files are imported without one
ImportHints == {"chase", "citi", "amex", "auto"}

\* the text of a file from its lines
FileOf(lines) == Join(lines, "\n")

InitImportCSV ==
  /\ StoreInit /\ ScreenInit /\ now = 0
  /\ \/ \E header \in HeaderLines, rows \in {<<>>} \cup SeqsUpTo(RowLines, MaxRows) :
          call = [op |-> "importCSV", lines |-> <<header>> \o rows,
                  fileContent |-> FileOf(<<header>> \o rows), bankName |-> ""]
     \/ \E header \in HeaderLines, rows \in {<<>>} \cup SeqsUpTo(RowLines, 1),
            bankName \in ImportHints :
          call = [op |-> "importCSV", lines |-> <<header>> \o rows,
                  fileContent |-> FileOf(<<header>> \o rows), bankName |-> bankName]
  /\ returned = FALSE
  /\ ret = [transactions |-> <<>>, errors |-> <<>>]

ImportCSV ==
  /\ call.op = "importCSV"
  /\ ~returned
  /\ ret' = importCSV(call.fileContent, call.bankName)
  /\ returned' = TRUE
  /\ UNCHANGED <<call, storeVars, screenVars, now>>

NextImportCSV == ImportCSV

SpecImportCSV == InitImportCSV /\ [][NextImportCSV]_vars

ImportReturned == returned /\ call.op = "importCSV"

\* the source lines (1-based, blank ones counted) that are not blank
SourceNonBlank == {k \in 1..Len(call.lines) : Trim(call.lines[k]) # ""}

\* the header fields and the schema of the file being imported
SourceHeaders ==
  parseCSVLine(call.lines[CHOOSE k \in SourceNonBlank : \A j \in SourceNonBlank : k <= j])
SourcePattern == resolveBankPattern(SourceHeaders, call.bankName)

\* the file has a header and a data line, and a schema is resolved
SchemaResolved == Cardinality(SourceNonBlank) >= 2 /\ SourcePattern # NoPattern

\* the source lines that are data rows: non-blank, after the header line
SourceDataLines ==
  {k \in SourceNonBlank : \E j \in SourceNonBlank : j < k}

\* C7: a file with fewer than 2 non-blank lines, or for which no schema is
\* resolved, gives no transaction and exactly one error.
C7_WholeFileFailure ==
  (ImportReturned /\ ~SchemaResolved) =>
     /\ ret.transactions = <<>>
     /\ Len(ret.errors) = 1
     /\ ~Includes(ret.errors[1], "Línea")

C7_Witness ==
  /\ ImportReturned
  /\ call.lines = <<"Foo,Bar", "2024-01-15,STARBUCKS #1,DEBIT,-42.10">>
  /\ call.bankName = "auto"
  /\ ret.transactions = <<>>
  /\ ret.errors = <<"Formato de banco no reconocido. Por favor selecciona el banco manualmente.">>

\* a data row of at least two fields whose date does not parse or whose
\* description is missing
RowFails(k) ==
  LET values == parseCSVLine(call.lines[k])
  IN /\ Len(values) >= 2
     /\ \/ extractDate(SourceHeaders, values, SourcePattern.dateColumns).isNull
        \/ extractDescription(SourceHeaders, values, SourcePattern.descriptionColumns) = ""

ErrorsTagged(k) ==
  {e \in 1..Len(ret.errors) :
     SubSeq(ret.errors[e], 1, Len("Línea " \o ToString(k) \o ":")) = "Línea " \o ToString(k) \o ":"}

\* C5: every data row whose date is unparseable or whose description is
\* missing leaves exactly one error tagged with the 1-based number of its line
\* in the source file, blank lines counted.
C5_RowErrorsTagged ==
  (ImportReturned /\ SchemaResolved) =>
     \A k \in SourceDataLines : RowFails(k) => Cardinality(ErrorsTagged(k)) = 1


\* the non-blank source lines in order; a transaction's id ends in the
\* 0-based index of its line among them
SourceRow(i) ==
  call.lines[CHOOSE k \in SourceNonBlank : Cardinality({j \in SourceNonBlank : j < k}) = i]

RowOfTransaction(tx) ==
  parseCSVLine(SourceRow(CHOOSE i \in 1..Len(call.lines) :
                           tx.id = "imported-" \o ToString(now) \o "-" \o ToString(i)))

\* the amounts the schema's amount columns hold on a row
ParsedAmounts(values) ==
  {parseAmount(RowGet(SourceHeaders, values, SourcePattern.amountColumns[c])) :
     c \in 1..Len(SourcePattern.amountColumns)}

\* C10: every transaction importCSV returns, whatever the shape of the schema
\* (type column, debit and credit columns, one signed column), has a strictly
\* positive amount that is the absolute value of an amount parsed from its
\* row, a type of income or expense, and isRecurring = false.
C10_AmountAbsolute ==
  ImportReturned =>
    \A i \in 1..Len(ret.transactions) :
      LET tx == ret.transactions[i]
      IN /\ IsFinite(tx.amount) /\ NGt(tx.amount, Zero)
         /\ \E parsed \in ParsedAmounts(RowOfTransaction(tx)) : tx.amount = MathAbs(parsed)
         /\ tx.type \in {"income", "expense"}
         /\ tx.isRecurring = FALSE

C10_Witness ==
  /\ ImportReturned
  /\ call.lines = <<"Posting Date, Description, Type, Amount",
                    "2024-01-15,STARBUCKS #1,DEBIT,-42.10",
                    "2024-01-16,PAYROLL,CREDIT,1500.00">>
  /\ call.bankName = ""
  /\ Len(ret.transactions) = 2
  /\ ret.transactions[1].amount = Num(4210, 100)
  /\ ret.transactions[1].type = "expense"
  /\ ret.transactions[2].amount = Int2Num(1500)
  /\ ret.transactions[2].type = "income"

\* the data rows by their 0-based position among the non-blank lines (the
\* header is position 0)
DataRows == 1..(Cardinality(SourceNonBlank) - 1)

\* what a row of fields holds under a schema
HasDate(headers, pattern, values) ==
  ~extractDate(headers, values, pattern.dateColumns).isNull
HasDescription(headers, pattern, values) ==
  extractDescription(headers, values, pattern.descriptionColumns) # ""
ResolvedAmount(headers, pattern, values) ==
  extractAmount(headers, values, pattern.amountColumns, pattern.typeColumn).amount

\* a row with a parseable date and a description whose resolved amount is 0
ZeroAmountValues(headers, pattern, values) ==
  /\ Len(values) >= 2
  /\ HasDate(headers, pattern, values) /\ HasDescription(headers, pattern, values)
  /\ NEq(ResolvedAmount(headers, pattern, values), Zero)

\* a row that has everything a transaction needs, and a row that lacks its
\* date or its description
CompleteValues(headers, pattern, values) ==
  /\ Len(values) >= 2
  /\ HasDate(headers, pattern, values) /\ HasDescription(headers, pattern, values)
  /\ ~NEq(ResolvedAmount(headers, pattern, values), Zero)
FailingValues(headers, pattern, values) ==
  /\ Len(values) >= 2
  /\ ~HasDate(headers, pattern, values) \/ ~HasDescription(headers, pattern, values)

\* the returned transactions that come from row i
TransactionsOfRow(i) ==
  {t \in 1..Len(ret.transactions) :
     ret.transactions[t].id = "imported-" \o ToString(now) \o "-" \o ToString(i)}

\* the rows after a dropped row i are still imported
ImportContinuesAfter(headers, pattern, i) ==
  \A j \in DataRows :
     j > i => /\ CompleteValues(headers, pattern, parseCSVLine(SourceRow(j)))
                   => Cardinality(TransactionsOfRow(j)) = 1
              /\ FailingValues(headers, pattern, parseCSVLine(SourceRow(j)))
                   => Cardinality(ErrorsTagged(j + 1)) = 1

ZeroAmountRowsDropped(headers, pattern) ==
  \A i \in DataRows :
     ZeroAmountValues(headers, pattern, parseCSVLine(SourceRow(i))) =>
        /\ TransactionsOfRow(i) = {}
        /\ ErrorsTagged(i + 1) = {}
        /\ ImportContinuesAfter(headers, pattern, i)

\* C11: a data row with a parseable date and a non-empty description whose
\* resolved amount is 0 leaves no transaction and no error entry, and the rows
\* after it are still imported: a complete one gives its transaction, one
\* without date or description gives its error.
C11_ZeroAmountDropped ==
  (ImportReturned /\ SchemaResolved) => ZeroAmountRowsDropped(SourceHeaders, SourcePattern)

C11_Witness ==
  /\ ImportReturned
  /\ call.lines = <<"Transaction Date,Description,Debit,Credit",
                    "2024-01-23,VOID,n/a,",
                    "2024-01-19,REFUND,,20.00">>
  /\ call.bankName = ""
  /\ Len(ret.transactions) = 1
  /\ ret.transactions[1].id = "imported-0-2"
  /\ ret.transactions[1].amount = Int2Num(20)
  /\ ret.errors = <<>>

\* the transactions and the errors a result holds for data row i
OutcomesOfRow(i) == Cardinality(TransactionsOfRow(i)) + Cardinality(ErrorsTagged(i + 1))

\* every data row left at most one entry: a transaction, an error, or nothing
AtMostOnePerRow == \A i \in DataRows : OutcomesOfRow(i) <= 1

\* a data row of fewer than two fields left nothing, and every entry of the
\* result is the entry of a data row
OnePerRow ==
  /\ AtMostOnePerRow
  /\ \A i \in DataRows :
       Len(parseCSVLine(SourceRow(i))) < 2 => OutcomesOfRow(i) = 0
  /\ \A t \in 1..Len(ret.transactions) : \E i \in DataRows : t \in TransactionsOfRow(i)
  /\ \A e \in 1..Len(ret.errors) : \E i \in DataRows : e \in ErrorsTagged(i + 1)

\* the transactions stand in the order of their rows, under distinct ids
InRowOrder ==
  /\ \A i, j \in DataRows :
       \A s \in TransactionsOfRow(i), t \in TransactionsOfRow(j) : s < t => i < j
  /\ \A s, t \in 1..Len(ret.transactions) :
       s # t => ret.transactions[s].id # ret.transactions[t].id

\* the result holds no more entries than the file has non-blank data lines
WithinDataLines ==
  Len(ret.transactions) + Len(ret.errors) <= Cardinality(SourceDataLines)

\* C30 as stated: for every file, every non-blank data line leaves at most
\* one of a transaction, an error string or nothing, so |transactions| +
\* |errors| <= the number of non-blank data lines, the transactions stand in
\* source-row order and their ids are pairwise distinct.
C30_PerRowOutcome_AsStated ==
  ImportReturned => (AtMostOnePerRow /\ WithinDataLines /\ InRowOrder)

\* C30: when the file has a header and a data line and a schema is resolved,
\* every non-blank data line leaves at most one of a transaction, an error
\* string or nothing (nothing when it has fewer than two fields), never both a
\* transaction and an error; every entry of the result belongs to a data
\* line, so |transactions| + |errors| <= the number of non-blank data lines;
\* the transactions stand in source-row order and their ids are pairwise
\* distinct.  A file without data line or schema gives one error of the file.
C30_PerRowOutcome ==
  (ImportReturned /\ SchemaResolved) =>
     (OnePerRow /\ WithinDataLines /\ InRowOrder)

\* an error for the first row and a transaction for the second
C30_Witness ==
  /\ ImportReturned
  /\ call.lines = <<"Posting Date, Description, Type, Amount",
                    "n/a,COFFEE,DEBIT,-3.00",
                    "2024-01-16,PAYROLL,CREDIT,1500.00">>
  /\ call.bankName = ""
  /\ Len(ret.transactions) = 1 /\ TransactionsOfRow(2) = {1}
  /\ Len(ret.errors) = 1 /\ ErrorsTagged(2) = {1}
  /\ OutcomesOfRow(1) = 1 /\ OutcomesOfRow(2) = 1

-----------------------------------------------------------------------------
(* parseTransaction applied to rows of debit and credit columns *)

\* the schemas with a debit and a credit column and no type column
DebitCreditBanks == {"citi", "capitalOne"}

DateCells == {"2024-01-15", "n/a"}
DescriptionCells == {"SHOP", ""}
DebitCreditCells == {"", "0.00", "12.50", "n/a", "-5.00", "(7.25)", "$1,000.00"}

\* rows of four cells, and rows that end after the debit cell
DebitCreditRows ==
  {<<date, description, debit, credit>> :
     date \in DateCells, description \in DescriptionCells,
     debit \in DebitCreditCells, credit \in DebitCreditCells}
  \cup {<<date, description, debit>> :
          date \in DateCells, description \in DescriptionCells,
          debit \in DebitCreditCells}

InitParseTransaction ==
  /\ StoreInit /\ ScreenInit /\ now = 0
  /\ \E bank \in DebitCreditBanks, values \in DebitCreditRows, lineNumber \in 1..2 :
       call = [op |-> "parseTransaction", bank |-> bank,
               headers |-> CanonicalHeaders[bank], values |-> values,
               lineNumber |-> lineNumber]
  /\ returned = FALSE
  /\ ret = ReturnedNull

ParseTransaction ==
  /\ call.op = "parseTransaction"
  /\ ~returned
  /\ ret' = parseTransaction(call.headers, call.values, BANK_PATTERNS[call.bank],
                             call.lineNumber)
  /\ returned' = TRUE
  /\ UNCHANGED <<call, storeVars, screenVars, now>>

NextParseTransaction == ParseTransaction

SpecParseTransaction == InitParseTransaction /\ [][NextParseTransaction]_vars

\* the row has a date that parses and a description
RowIsDated(values) == parseDate(values[1]) # NullDate /\ Trim(values[2]) # ""

\* what the debit and the credit cell of a row parse to; a missing cell is ''
DebitOf(values) == parseAmount(values[3])
CreditOf(values) == parseAmount(IF Len(values) >= 4 THEN values[4] ELSE "")

\* the outcome is a transaction of the given type and amount
BecomesTransaction(outcome, type, amount) ==
  /\ outcome.kind = "transaction"
  /\ outcome.transaction.type = type
  /\ outcome.transaction.amount = amount

DebitCreditResolved(outcome, debit, credit) ==
  /\ NGt(debit, Zero) => BecomesTransaction(outcome, "expense", debit)
  /\ (~NGt(debit, Zero) /\ NGt(credit, Zero)) => BecomesTransaction(outcome, "income", credit)
  /\ (NEq(debit, Zero) /\ NEq(credit, Zero)) => outcome = ReturnedNull
  /\ outcome.kind # "throw"

\* C23: for a schema with two amount columns and no type value, a row whose
\* debit parses to a value > 0 becomes an expense with amount = debit;
\* otherwise a row whose credit parses to a value > 0 becomes an income with
\* amount = credit; a row where both are zero is dropped without an error.
C23_DebitCreditResolution ==
  (/\ returned /\ call.op = "parseTransaction"
   /\ Len(BANK_PATTERNS[call.bank].amountColumns) = 2
   /\ BANK_PATTERNS[call.bank].typeColumn = ""
   /\ RowIsDated(call.values))
    => DebitCreditResolved(ret, DebitOf(call.values), CreditOf(call.values))

C23_Witness ==
  /\ returned /\ call.op = "parseTransaction"
  /\ call.bank = "capitalOne"
  /\ call.values = <<"2024-01-15", "SHOP", "12.50", "$1,000.00">>
  /\ ret.kind = "transaction"
  /\ ret.transaction.type = "expense"
  /\ ret.transaction.amount = Num(1250, 100)

-----------------------------------------------------------------------------
(* parseAmount applied to amount cells *)

\* the longest amount cell drawn from the alphabet
MaxAmountLen == 3

AmountAlphabet == {"1", ".", "$", "€", ",", "(", ")", "-"}

AmountExamples ==
  {"$1,234.56", "(45.00)", "€10", "($45.00)", "1,000", "n/a", " 15 ", "1 5", "5x", "x5", ""}

InitParseAmount ==
  /\ StoreInit /\ ScreenInit /\ now = 0
  /\ \E amountStr \in StringsUpTo(AmountAlphabet, MaxAmountLen) \cup AmountExamples :
       call = [op |-> "parseAmount", amountStr |-> amountStr]
  /\ returned = FALSE
  /\ ret = Zero

ParseAmount ==
  /\ call.op = "parseAmount"
  /\ ~returned
  /\ ret' = parseAmount(call.amountStr)
  /\ returned' = TRUE
  /\ UNCHANGED <<call, storeVars, screenVars, now>>

NextParseAmount == ParseAmount

SpecParseAmount == InitParseAmount /\ [][NextParseAmount]_vars

\* an amount cell without its currency symbols, thousands separators and blanks
AmountNoise == {"$", "€", "£", "¥", ",", " ", "\t", "\r", "\n"}
WithoutNoise(s) == ReplaceChars(s, AmountNoise, "")

\* an unsigned decimal literal: digits with at most one point, at least one digit
IsUnsignedDecimal(s) ==
  /\ \A k \in 1..Len(s) : IsDigit(CharAt(s, k)) \/ CharAt(s, k) = "."
  /\ Cardinality({k \in 1..Len(s) : CharAt(s, k) = "."}) <= 1
  /\ \E k \in 1..Len(s) : IsDigit(CharAt(s, k))

\* the value of an unsigned decimal literal, from its integer and fraction digits
DecimalOfParts(parts) ==
  IF Len(parts) = 1 THEN Int2Num(DigitsVal(parts[1]))
  ELSE Num(DigitsVal(parts[1] \o parts[2]), Pow10(Len(parts[2])))
DecimalValue(s) == DecimalOfParts(Split(s, "."))

\* a cell that is an unsigned decimal wrapped in one pair of parentheses
IsParenthesized(core) ==
  /\ Len(core) >= 3
  /\ CharAt(core, 1) = "(" /\ CharAt(core, Len(core)) = ")"
  /\ IsUnsignedDecimal(SubSeq(core, 2, Len(core) - 1))

AmountNormalized(core, amount) ==
  /\ IsUnsignedDecimal(core) => amount = DecimalValue(core)
  /\ IsParenthesized(core) =>
       amount = NNeg(DecimalValue(SubSeq(core, 2, Len(core) - 1)))
  /\ (\A k \in 1..Len(core) : ~IsDigit(CharAt(core, k))) => amount = Zero

\* C12: parseAmount drops currency symbols, thousands separators and blanks;
\* what is left, when an unsigned decimal, is the result, and when an unsigned
\* decimal in parentheses, its negation; a cell without any digit gives 0 and
\* the result is never NaN.  "$1,234.56" gives 1234.56, "(45.00)"
\* gives -45 and "€10" gives 10.
C12_AmountNormalization ==
  (returned /\ call.op = "parseAmount") =>
     /\ ~IsNaN(ret)
     /\ AmountNormalized(WithoutNoise(call.amountStr), ret)
     /\ call.amountStr = "$1,234.56" => ret = Num(123456, 100)
     /\ call.amountStr = "(45.00)" => ret = Int2Num(-45)
     /\ call.amountStr = "€10" => ret = Int2Num(10)

C12_Witness ==
  /\ returned /\ call.op = "parseAmount"
  /\ call.amountStr = "($45.00)"
  /\ ret = Int2Num(-45)

-----------------------------------------------------------------------------
(* identifyRecurringTransactions applied to transaction lists *)

\* the most transactions in a list handed to identifyRecurringTransactions
MaxGroup == 3

\* charges with and without a merchant name, of equal, close and spread amounts
RecurringPool ==
  {[id |-> "r", accountId |-> "a1", date |-> 0, description |-> description,
    amount |-> amount, type |-> "expense", category |-> "entertainment",
    isRecurring |-> FALSE, merchantName |-> merchantName] :
     description \in {"NETFLIX.COM", "Gym"}, merchantName \in {"Netflix", ""},
     amount \in {Num(999, 100), Int2Num(10), Int2Num(50), Int2Num(5)}}

InitRecurring ==
  /\ StoreInit /\ ScreenInit /\ now = 0
  /\ \E txs \in {<<>>} \cup SeqsUpTo(RecurringPool, MaxGroup) :
       call = [op |-> "identifyRecurringTransactions", transactions |-> txs]
  /\ returned = FALSE
  /\ ret = <<>>

IdentifyRecurringTransactions ==
  /\ call.op = "identifyRecurringTransactions"
  /\ ~returned
  /\ ret' = identifyRecurringTransactions(call.transactions)
  /\ returned' = TRUE
  /\ UNCHANGED <<call, storeVars, screenVars, now>>

NextRecurring == IdentifyRecurringTransactions

SpecRecurring == InitRecurring /\ [][NextRecurring]_vars

\* the name a transaction is grouped under, and the amounts of a group
GroupKey(t) == IF t.merchantName = "" THEN t.description ELSE t.merchantName
GroupKeys == {GroupKey(call.transactions[k]) : k \in 1..Len(call.transactions)}
GroupAmounts(key) ==
  Amounts(SelectSeq(call.transactions, LAMBDA t : GroupKey(t) = key))

\* mean and population variance (the mean of the squares less the square of
\* the mean) of a sequence of amounts
MeanOf(amounts) == NDiv(Sum(amounts), Int2Num(Len(amounts)))
MeanSquareOf(amounts) ==
  NDiv(Sum([k \in 1..Len(amounts) |-> NMul(amounts[k], amounts[k])]),
       Int2Num(Len(amounts)))
PopulationVariance(amounts, mean) == NSub(MeanSquareOf(amounts), NMul(mean, mean))

IsRecurringGroup(amounts, mean) ==
  /\ Len(amounts) >= 2
  /\ NLt(PopulationVariance(amounts, mean), NMul(Num(1, 10), mean))

\* the reported patterns of a group
ReportedFor(key) == {i \in 1..Len(ret) : ret[i].merchantName = key}

\* C14: identifyRecurringTransactions groups by merchantName, falling back to
\* description, and reports a group, once, iff it has at least 2 transactions
\* and the population variance of its amounts is below 0.1 times their mean;
\* the reported amount is the group mean and the frequency the group size.
\* Three charges of 9.99 are recurring, 9.99, 50 and 5 are not, and a single
\* transaction never is.
C14_RecurringDetection ==
  (returned /\ call.op = "identifyRecurringTransactions") =>
     /\ \A i \in 1..Len(ret) : ret[i].merchantName \in GroupKeys
     /\ \A key \in GroupKeys :
          /\ IF IsRecurringGroup(GroupAmounts(key), MeanOf(GroupAmounts(key)))
             THEN Cardinality(ReportedFor(key)) = 1
             ELSE ReportedFor(key) = {}
          /\ \A i \in ReportedFor(key) :
               /\ ret[i].amount = MeanOf(GroupAmounts(key))
               /\ ret[i].frequency = Len(GroupAmounts(key))
     /\ (Cardinality(GroupKeys) = 1 /\ Amounts(call.transactions)
           = <<Num(999, 100), Num(999, 100), Num(999, 100)>>) => Len(ret) = 1
     /\ (Cardinality(GroupKeys) = 1 /\ Amounts(call.transactions)
           = <<Num(999, 100), Int2Num(50), Int2Num(5)>>) => ret = <<>>
     /\ Len(call.transactions) = 1 => ret = <<>>

C14_Witness ==
  /\ returned /\ call.op = "identifyRecurringTransactions"
  /\ Len(call.transactions) = 3
  /\ \A k \in 1..3 : /\ call.transactions[k].merchantName = "Netflix"
                     /\ call.transactions[k].amount = Num(999, 100)
  /\ ret = <<[merchantName |-> "Netflix", amount |-> Num(999, 100), frequency |-> 3]>>

-----------------------------------------------------------------------------
(* useFinanceStore: the store driven by its callers *)

\* the most transactions the callers keep in the store
MaxTx == 2

\* the instant of the session: 15 March 2024, in the second half of the day
Today == MakeDate(2024, 3, 15) + 1

AccountPool ==
  {[id |-> "a1", bankName |-> "Chase", accountNumber |-> "****",
    accountType |-> "checking", balance |-> Zero, currency |-> "USD", lastSync |-> Today]}

AccountIds == {"a1", "a2"}

\* a large food expense today, a salary this month, a subscription charge and
\* a food expense last month
TxPool ==
  {[id |-> "t1", accountId |-> "a1", date |-> MakeDate(2024, 3, 15),
    description |-> "MARKET", amount |-> Int2Num(1200), type |-> "expense",
    category |-> "food", isRecurring |-> FALSE, merchantName |-> "Market"],
   [id |-> "t2", accountId |-> "a1", date |-> MakeDate(2024, 3, 1),
    description |-> "PAYROLL", amount |-> Int2Num(3000), type |-> "income",
    category |-> "salary", isRecurring |-> TRUE, merchantName |-> ""],
   [id |-> "t3", accountId |-> "a2", date |-> MakeDate(2024, 2, 20),
    description |-> "NETFLIX.COM", amount |-> Num(999, 100), type |-> "expense",
    category |-> "entertainment", isRecurring |-> TRUE, merchantName |-> "Netflix"],
   [id |-> "t4", accountId |-> "a2", date |-> MakeDate(2024, 2, 10),
    description |-> "DINER", amount |-> Int2Num(300), type |-> "expense",
    category |-> "food", isRecurring |-> FALSE, merchantName |-> ""]}

TxIds == {t.id : t \in TxPool}

\* the transaction the user recategorizes, and the category they give it
UpdatedIds == {"t1"}

UpdatePool == {[category |-> "shopping"]}

BudgetPool ==
  {[id |-> "b1", category |-> "food", monthlyLimit |-> Int2Num(500),
    dailyLimit |-> Int2Num(20), currentSpent |-> Zero, alerts |-> TRUE]}

\* { ...t, ...updates }
Spread(t, updates) ==
  [f \in DOMAIN t \cup DOMAIN updates |-> IF f \in DOMAIN updates THEN updates[f] ELSE t[f]]

Init ==
  /\ StoreInit /\ ScreenInit
  /\ now = Today
  /\ call = NoCall
  /\ returned = FALSE
  /\ ret = <<>>

AddAccount(account) ==
  /\ \A k \in 1..Len(accounts) : accounts[k].id # account.id
  /\ accounts' = Append(accounts, account)
  /\ UNCHANGED <<transactions, budgets, insights, dailyBudget, spendingPatterns,
                 incomePatterns, isLoading, error, screenVars, callVars, now>>

\* removeAccount that leaves the transactions alone
RemoveAccountOnly(id) ==
  /\ accounts' = SelectSeq(accounts, LAMBDA acc : acc.id # id)
  /\ UNCHANGED <<transactions, budgets, insights, dailyBudget, spendingPatterns,
                 incomePatterns, isLoading, error, screenVars, callVars, now>>

RemoveAccount(id) ==
  /\ accounts' = SelectSeq(accounts, LAMBDA acc : acc.id # id)
  /\ transactions' = SelectSeq(transactions, LAMBDA t : t.accountId # id)
  /\ UNCHANGED <<budgets, insights, dailyBudget, spendingPatterns, incomePatterns,
                 isLoading, error, screenVars, callVars, now>>

AddTransaction(transaction) ==
  /\ Len(transactions) < MaxTx
  /\ \A k \in 1..Len(transactions) : transactions[k].id # transaction.id
  /\ transactions' = Append(transactions, transaction)
  /\ UNCHANGED <<accounts, budgets, insights, dailyBudget, spendingPatterns,
                 incomePatterns, isLoading, error, screenVars, callVars, now>>

UpdateTransaction(id, updates) ==
  /\ transactions' = [k \in 1..Len(transactions) |->
                        IF transactions[k].id = id
                        THEN Spread(transactions[k], updates) ELSE transactions[k]]
  /\ UNCHANGED <<accounts, budgets, insights, dailyBudget, spendingPatterns,
                 incomePatterns, isLoading, error, screenVars, callVars, now>>

RemoveTransaction(id) ==
  /\ transactions' = SelectSeq(transactions, LAMBDA t : t.id # id)
  /\ UNCHANGED <<accounts, budgets, insights, dailyBudget, spendingPatterns,
                 incomePatterns, isLoading, error, screenVars, callVars, now>>

SetBudget(budget) ==
  /\ budgets' = Append(SelectSeq(budgets, LAMBDA b : b.id # budget.id), budget)
  /\ UNCHANGED <<accounts, transactions, insights, dailyBudget, spendingPatterns,
                 incomePatterns, isLoading, error, screenVars, callVars, now>>

GenerateInsights ==
  /\ insights' = newInsights(spendingPatterns)
  /\ UNCHANGED <<accounts, transactions, budgets, dailyBudget, spendingPatterns,
                 incomePatterns, isLoading, error, screenVars, callVars, now>>

AnalyzeSpendingPatterns ==
  /\ spendingPatterns' = analyzeSpendingPatterns(transactions)
  /\ UNCHANGED <<accounts, transactions, budgets, insights, dailyBudget,
                 incomePatterns, isLoading, error, screenVars, callVars, now>>

AnalyzeIncomePatterns ==
  /\ incomePatterns' = analyzeIncomePatterns(transactions)
  /\ UNCHANGED <<accounts, transactions, budgets, insights, dailyBudget,
                 spendingPatterns, isLoading, error, screenVars, callVars, now>>

CalculateDailyBudget ==
  /\ dailyBudget' = calculateDailyBudget(transactions, incomePatterns)
  /\ UNCHANGED <<accounts, transactions, budgets, insights, spendingPatterns,
                 incomePatterns, isLoading, error, screenVars, callVars, now>>

\* a load pass that computes the daily budget before the income patterns
LoadDataBudgetFirst ==
  /\ UNCHANGED <<accounts, transactions, budgets, isLoading, error, screenVars,
                 callVars, now>>
  /\ spendingPatterns' = analyzeSpendingPatterns(transactions)
  /\ dailyBudget' = calculateDailyBudget(transactions, incomePatterns)
  /\ incomePatterns' = analyzeIncomePatterns(transactions)
  /\ insights' = newInsights(spendingPatterns')

\* DashboardScreen.loadData: analyzeSpendingPatterns(), analyzeIncomePatterns(),
\* calculateDailyBudget(), generateInsights(), each reading the store the
\* calls before it wrote
LoadData ==
  /\ UNCHANGED <<accounts, transactions, budgets, isLoading, error, screenVars,
                 callVars, now>>
  /\ spendingPatterns' = analyzeSpendingPatterns(transactions)
  /\ incomePatterns' = analyzeIncomePatterns(transactions)
  /\ dailyBudget' = calculateDailyBudget(transactions, incomePatterns')
  /\ insights' = newInsights(spendingPatterns')

Next ==
  \/ \E account \in AccountPool : AddAccount(account)
  \/ \E id \in AccountIds : RemoveAccount(id)
  \/ \E transaction \in TxPool : AddTransaction(transaction)
  \/ \E id \in UpdatedIds, updates \in UpdatePool : UpdateTransaction(id, updates)
  \/ \E id \in TxIds : RemoveTransaction(id)
  \/ \E budget \in BudgetPool : SetBudget(budget)
  \/ GenerateInsights
  \/ AnalyzeSpendingPatterns
  \/ AnalyzeIncomePatterns
  \/ CalculateDailyBudget

Spec == Init /\ [][Next]_vars

\* the store with the dashboard mounted: the operations on accounts and
\* transactions, the four analyses called one at a time, and the load pass
\* the dashboard runs
NextDashboard ==
  \/ \E account \in AccountPool : AddAccount(account)
  \/ \E id \in AccountIds : RemoveAccount(id)
  \/ \E transaction \in TxPool : AddTransaction(transaction)
  \/ \E id \in UpdatedIds, updates \in UpdatePool : UpdateTransaction(id, updates)
  \/ \E id \in TxIds : RemoveTransaction(id)
  \/ GenerateInsights
  \/ AnalyzeSpendingPatterns
  \/ AnalyzeIncomePatterns
  \/ CalculateDailyBudget
  \/ LoadData

SpecDashboard == Init /\ [][NextDashboard]_vars

\* C4: calculateDailyBudget guards the division: whenever the stored
\* availableToSpend is <= 0 the stored percentageUsed is a defined number that
\* counts as at least 100% used, never the NaN of a division by zero.
C4_GuardedDivision ==
  (~dailyBudget.isNull /\ NLe(dailyBudget.availableToSpend, Zero)) =>
     /\ IsFinite(dailyBudget.percentageUsed)
     /\ NGe(dailyBudget.percentageUsed, Int2Num(100))

\* C6: every step of the store's generateInsights leaves in the store the
\* result of intelligenceService.generateInsights for the transactions held.
C6_StoreRefinesService ==
  [][GenerateInsights => insights' = generateInsights(transactions)]_vars

\* the categories of the expenses of the last 30 days and the sources of the
\* incomes of the last 90 days among the transactions held
RecentExpenseCategories ==
  {transactions[k].category : k \in {j \in 1..Len(transactions) :
      /\ transactions[j].type = "expense"
      /\ transactions[j].date >= now - 30 * TicksPerDay}}
RecentIncomeSources ==
  {MerchantOf(transactions[k]) : k \in {j \in 1..Len(transactions) :
      /\ transactions[j].type = "income"
      /\ transactions[j].date >= now - 90 * TicksPerDay}}

\* a list with one entry per key of a set, and nothing else
OnePerKey(keys, wanted) ==
  /\ Len(keys) = Cardinality(wanted)
  /\ {keys[k] : k \in 1..Len(keys)} = wanted

\* the categories of the spending patterns flagged unusual
UnusualCategories ==
  {spendingPatterns[k].category :
     k \in {j \in 1..Len(spendingPatterns) : spendingPatterns[j].unusualActivity}}

\* the rest of the store when one derived field is written
OnlySpendingPatterns ==
  UNCHANGED <<accounts, transactions, budgets, insights, dailyBudget, incomePatterns,
              isLoading, error>>
OnlyIncomePatterns ==
  UNCHANGED <<accounts, transactions, budgets, insights, dailyBudget, spendingPatterns,
              isLoading, error>>
OnlyInsights ==
  UNCHANGED <<accounts, transactions, budgets, dailyBudget, spendingPatterns,
              incomePatterns, isLoading, error>>
OnlyDailyBudget ==
  UNCHANGED <<accounts, transactions, budgets, insights, spendingPatterns,
              incomePatterns, isLoading, error>>

\* C18: a step that writes spendingPatterns, incomePatterns, insights or
\* dailyBudget writes nothing else of the store (transactions, accounts and
\* budgets included), and the value written is built from the current
\* snapshot alone: one spending pattern per category of the recent expenses,
\* one income pattern per source of the recent incomes, one insight per
\* spending pattern flagged unusual, the budget of the current transactions
\* and income patterns; nothing of the previous value is carried over.
C18_AnalysisFrame ==
  [][/\ spendingPatterns' # spendingPatterns =>
          /\ OnlySpendingPatterns
          /\ OnePerKey([k \in 1..Len(spendingPatterns') |-> spendingPatterns'[k].category],
                       RecentExpenseCategories)
     /\ incomePatterns' # incomePatterns =>
          /\ OnlyIncomePatterns
          /\ OnePerKey([k \in 1..Len(incomePatterns') |-> incomePatterns'[k].source],
                       RecentIncomeSources)
     /\ insights' # insights =>
          /\ OnlyInsights
          /\ OnePerKey([k \in 1..Len(insights') |-> insights'[k].category],
                       UnusualCategories)
     /\ dailyBudget' # dailyBudget =>
          /\ OnlyDailyBudget
          /\ dailyBudget' = calculateDailyBudget(transactions, incomePatterns)]_vars

\* the four derived fields written, the spending patterns rebuilt after the
\* expense behind the stored insight changed its category
C18_Witness ==
  /\ Len(insights) = 1 /\ insights[1].category = "food"
  /\ Len(spendingPatterns) = 1 /\ spendingPatterns[1].category = "shopping"
  /\ Len(incomePatterns) = 1 /\ incomePatterns[1].source = "PAYROLL"
  /\ ~dailyBudget.isNull
  /\ Len(transactions) = 2 /\ Len(accounts) = 1 /\ Len(budgets) = 1

\* seq without its entries at the indices dropped, the others in their order
Keeping(seq, dropped) ==
  [j \in 1..(Len(seq) - Cardinality(dropped)) |->
     seq[CHOOSE k \in (1..Len(seq)) \ dropped :
           Cardinality({i \in (1..Len(seq)) \ dropped : i < k}) = j - 1]]

AccountsWithId(id) == {k \in 1..Len(accounts) : accounts[k].id = id}
TransactionsOfAccount(id) == {k \in 1..Len(transactions) : transactions[k].accountId = id}

\* C19: removeAccount(id) removes the account with that id and every
\* transaction whose accountId is id, keeps every other account and every
\* other transaction, in their order, and leaves budgets and all derived
\* state unchanged; afterwards no transaction of that account is held.
C19_RemoveAccountCascade ==
  [][\A id \in AccountIds :
       RemoveAccount(id) =>
         /\ accounts' = Keeping(accounts, AccountsWithId(id))
         /\ transactions' = Keeping(transactions, TransactionsOfAccount(id))
         /\ \A k \in 1..Len(transactions') : transactions'[k].accountId # id
         /\ \A k \in 1..Len(accounts') : accounts'[k].id # id
         /\ UNCHANGED <<budgets, insights, dailyBudget, spendingPatterns,
                        incomePatterns, isLoading, error>>]_vars

\* account a1 and its transaction are gone, the transaction of the other
\* account and the state derived earlier are still there
C19_Witness ==
  /\ accounts = <<>>
  /\ Len(transactions) = 1 /\ transactions[1].id = "t3"
  /\ Len(spendingPatterns) = 2
  /\ spendingPatterns[1].category = "food"
  /\ spendingPatterns[2].category = "entertainment"
  /\ Len(insights) = 1 /\ insights[1].category = "food"
  /\ ~dailyBudget.isNull

\* C20: on an empty transaction collection the detectors and the pattern
\* functions complete with empty output: generateInsights returns no insights,
\* analyzeSpendingPatterns stores no spending patterns and
\* analyzeIncomePatterns stores no income patterns.
C20_EmptyInput ==
  [][transactions = <<>> =>
       /\ generateInsights(transactions) = <<>>
       /\ identifyRecurringTransactions(transactions) = <<>>
       /\ AnalyzeSpendingPatterns => spendingPatterns' = <<>>
       /\ AnalyzeIncomePatterns => incomePatterns' = <<>>]_vars

\* the store emptied after its analysis, and both pattern lists rebuilt on the
\* empty collection: the insight and the budget derived from the earlier
\* patterns are still held
C20_Witness ==
  /\ transactions = <<>>
  /\ spendingPatterns = <<>>
  /\ incomePatterns = <<>>
  /\ Len(insights) = 1 /\ insights[1].category = "food"
  /\ ~dailyBudget.isNull
  /\ dailyBudget.availableToSpend = Num(-200, 17)

-----------------------------------------------------------------------------
(* calculateDailyBudget on stores at several days of the year *)

\* the first day of a 30-day month, the middle of a 31-day month, the last
\* day of a leap February, the last day of the year
BudgetInstants ==
  {MakeDate(2024, 4, 1), MakeDate(2024, 3, 15) + 1, MakeDate(2024, 2, 29) + 1,
   MakeDate(2024, 12, 31)}

\* expenses of 30 at instants in and around the months of BudgetInstants, a
\* large expense and an income
BudgetTxPool ==
  {[id |-> "e", accountId |-> "a1", date |-> date, description |-> "DINER",
    amount |-> Int2Num(30), type |-> "expense", category |-> "food",
    isRecurring |-> FALSE, merchantName |-> ""] :
     date \in {MakeDate(2024, 4, 1), MakeDate(2024, 4, 1) + 1, MakeDate(2024, 3, 15),
               MakeDate(2024, 3, 15) + 1, MakeDate(2024, 3, 1), MakeDate(2024, 2, 29),
               MakeDate(2024, 2, 10), MakeDate(2024, 12, 31), MakeDate(2024, 12, 1) + 1}}
  \cup {[id |-> "x", accountId |-> "a1", date |-> MakeDate(2024, 3, 15),
         description |-> "MARKET", amount |-> Int2Num(1200), type |-> "expense",
         category |-> "food", isRecurring |-> FALSE, merchantName |-> "Market"],
        [id |-> "i", accountId |-> "a1", date |-> MakeDate(2024, 3, 15),
         description |-> "PAYROLL", amount |-> Int2Num(3000), type |-> "income",
         category |-> "salary", isRecurring |-> TRUE, merchantName |-> ""]}

\* income patterns analyzeIncomePatterns left: none, 3000 from one source, 3000
\* from two sources, 1000
BudgetIncomePatterns ==
  {<<>>,
   <<IncomePatternOf("PAYROLL", Int2Num(9000))>>,
   <<IncomePatternOf("PAYROLL", Int2Num(6000)), IncomePatternOf("Gig", Int2Num(3000))>>,
   <<IncomePatternOf("PAYROLL", Int2Num(3000))>>}

InitDailyBudget ==
  /\ accounts = <<>> /\ budgets = <<>> /\ insights = <<>>
  /\ spendingPatterns = <<>> /\ isLoading = FALSE /\ error = ""
  /\ dailyBudget = [isNull |-> TRUE]
  /\ transactions \in {<<>>} \cup SeqsUpTo(BudgetTxPool, MaxTx)
  /\ incomePatterns \in BudgetIncomePatterns
  /\ now \in BudgetInstants
  /\ ScreenInit
  /\ call = NoCall /\ returned = FALSE /\ ret = <<>>

NextDailyBudget == CalculateDailyBudget

SpecDailyBudget == InitDailyBudget /\ [][NextDailyBudget]_vars

\* the days of the current month from today on, today included
DaysLeftIn(year, month) ==
  Cardinality({day \in DayOf(now)..(DayOf(now) + 31) :
                 /\ getMonth(day * TicksPerDay) = month
                 /\ getFullYear(day * TicksPerDay) = year})
DaysLeftInMonth == DaysLeftIn(getFullYear(now), getMonth(now))

\* the expenses of the current month dated up to now, and the expenses of today
SameMonth(t) ==
  getMonth(t.date) = getMonth(now) /\ getFullYear(t.date) = getFullYear(now)
MonthExpensesToNow ==
  SumAmounts(SelectSeq(transactions,
    LAMBDA t : t.type = "expense" /\ t.date <= now /\ SameMonth(t)))
ExpensesOfToday ==
  SumAmounts(SelectSeq(transactions,
    LAMBDA t : t.type = "expense" /\ DayOf(t.date) = DayOf(now)))
IncomeTotal == Sum([k \in 1..Len(incomePatterns) |-> incomePatterns[k].averageMonthly])

BudgetMatches(budget, available, spent) ==
  /\ budget.availableToSpend = available
  /\ budget.spent = spent
  /\ budget.remaining = NSub(available, spent)
  /\ budget.percentageUsed = NMul(NDiv(spent, available), Int2Num(100))

\* the stored budget is the one computed over daysLeft remaining days
BudgetComputedOver(daysLeft) ==
  /\ DaysRemaining(now) = daysLeft
  /\ daysLeft >= 1
  /\ daysLeft <= DaysInMonth(getFullYear(now), getMonth(now))
  /\ BudgetMatches(dailyBudget,
                   NDiv(NSub(IncomeTotal, MonthExpensesToNow), Int2Num(daysLeft)),
                   ExpensesOfToday)

\* C15: the stored daily budget has availableToSpend = (sum of the income
\* patterns' averageMonthly - the month's expenses up to now) / daysRemaining
\* with daysRemaining = days in the month - day of the month + 1, between 1
\* and the month length; spent = today's expenses; remaining = availableToSpend
\* - spent; percentageUsed = spent / availableToSpend * 100.  With income
\* patterns totalling 3000, no expenses and day 1 of a 30-day month it is
\* 100, 100 and 0.
C15_DailyBudgetComputation ==
  ~dailyBudget.isNull =>
     /\ BudgetComputedOver(DaysLeftInMonth)
     /\ (now = MakeDate(2024, 4, 1) /\ IncomeTotal = Int2Num(3000) /\ transactions = <<>>) =>
          /\ dailyBudget.availableToSpend = Int2Num(100)
          /\ dailyBudget.remaining = Int2Num(100)
          /\ dailyBudget.percentageUsed = Zero

C15_Witness ==
  /\ now = MakeDate(2024, 4, 1)
  /\ Len(incomePatterns) = 2
  /\ transactions = <<>>
  /\ ~dailyBudget.isNull
  /\ dailyBudget.availableToSpend = Int2Num(100)
  /\ dailyBudget.spent = Zero
  /\ dailyBudget.remaining = Int2Num(100)
  /\ dailyBudget.percentageUsed = Zero

-----------------------------------------------------------------------------
(* intelligenceService.generateInsights applied to transaction lists, twice, *)
(* while the clock runs *)

\* the most transactions in a list handed to generateInsights
MaxInsightTx == 3

\* the most ticks that pass while a list is analysed
MaxElapsed == 1

\* a gym charge, a subscription charge, a large purchase, a salary, a small
\* income, a food expense last month and a large one today
InsightTxPool ==
  {[id |-> "g1", accountId |-> "a1", date |-> MakeDate(2024, 3, 5),
    description |-> "GYM", amount |-> Int2Num(40), type |-> "expense",
    category |-> "healthcare", isRecurring |-> TRUE, merchantName |-> "Gym"],
   [id |-> "n1", accountId |-> "a1", date |-> MakeDate(2024, 3, 1),
    description |-> "NETFLIX.COM", amount |-> Num(999, 100), type |-> "expense",
    category |-> "entertainment", isRecurring |-> TRUE, merchantName |-> "Netflix"],
   [id |-> "s1", accountId |-> "a1", date |-> MakeDate(2024, 3, 10),
    description |-> "AMAZON", amount |-> Int2Num(600), type |-> "expense",
    category |-> "shopping", isRecurring |-> FALSE, merchantName |-> "Amazon"],
   [id |-> "p1", accountId |-> "a1", date |-> MakeDate(2024, 3, 1),
    description |-> "PAYROLL", amount |-> Int2Num(3000), type |-> "income",
    category |-> "salary", isRecurring |-> TRUE, merchantName |-> ""],
   [id |-> "p2", accountId |-> "a1", date |-> MakeDate(2024, 3, 2),
    description |-> "REFUND", amount |-> Int2Num(50), type |-> "income",
    category |-> "other", isRecurring |-> FALSE, merchantName |-> ""],
   [id |-> "f1", accountId |-> "a1", date |-> MakeDate(2024, 2, 10),
    description |-> "DINER", amount |-> Int2Num(300), type |-> "expense",
    category |-> "food", isRecurring |-> FALSE, merchantName |-> ""],
   [id |-> "f2", accountId |-> "a1", date |-> MakeDate(2024, 3, 15),
    description |-> "MARKET", amount |-> Int2Num(1200), type |-> "expense",
    category |-> "food", isRecurring |-> FALSE, merchantName |-> "Market"]}

InitInsights ==
  /\ StoreInit /\ ScreenInit /\ now = Today
  /\ \E txs \in {<<>>} \cup SeqsUpTo(InsightTxPool, MaxInsightTx) :
       call = [op |-> "generateInsights", transactions |-> txs,
               invocations |-> 0, at |-> Today, first |-> <<>>]
  /\ returned = FALSE
  /\ ret = <<>>

\* an invocation returns: the result, the instant and, the first time, a copy
\* of the result are kept
InsightsReturned(result) ==
  /\ ret' = result
  /\ call' = [call EXCEPT !.invocations = @ + 1, !.at = now,
                          !.first = IF call.invocations = 0 THEN result ELSE @]
  /\ returned' = TRUE

InvokeGenerateInsights ==
  /\ call.op = "generateInsights"
  /\ call.invocations < 2
  /\ InsightsReturned(generateInsights(call.transactions))
  /\ UNCHANGED <<storeVars, screenVars, now>>

\* the clock advances
Tick ==
  /\ call.op = "generateInsights"
  /\ now < Today + MaxElapsed
  /\ now' = now + 1
  /\ UNCHANGED <<storeVars, screenVars, callVars>>

NextInsights == InvokeGenerateInsights \/ Tick

SpecInsights == InitInsights /\ [][NextInsights]_vars

\* the insights in the order the detectors emit them
Emitted(txs) ==
  detectUnnecessaryExpenses(txs) \o detectRecurringExpenses(txs)
    \o detectUnusualSpending(txs) \o suggestBudgetOptimizations(txs)
    \o analyzeIncomeOpportunities(txs) \o detectIncomePatterns(txs)

Priorities(list) == [k \in 1..Len(list) |-> list[k].priority]
OfPriority(list, priority) == SelectSeq(list, LAMBDA x : x.priority = priority)

PriorityRank(priority) ==
  CASE priority = "high" -> 1 [] priority = "medium" -> 2 [] priority = "low" -> 3

\* every high before every medium before every low, and within a priority the
\* order of the emitted list
StablySorted(sorted, emitted) ==
  /\ \A i, j \in 1..Len(sorted) :
       i < j => PriorityRank(sorted[i].priority) <= PriorityRank(sorted[j].priority)
  /\ \A priority \in {"high", "medium", "low"} :
       OfPriority(sorted, priority) = OfPriority(emitted, priority)

\* four insights of priorities low, high, medium, high
SortExample ==
  <<[id |-> "a", priority |-> "low"], [id |-> "b", priority |-> "high"],
    [id |-> "c", priority |-> "medium"], [id |-> "d", priority |-> "high"]>>

\* C16: the list generateInsights returns has every high before every medium
\* before every low, and insights of equal priority are in the order in which
\* the detectors emitted them; priorities low, high, medium, high come out as
\* high, high, medium, low with the two highs in their original order.
C16_StablePrioritySort ==
  (returned /\ call.op = "generateInsights" /\ call.at = now) =>
     /\ StablySorted(ret, Emitted(call.transactions))
     /\ Priorities(SortByPriority(SortExample)) = <<"high", "high", "medium", "low">>
     /\ StablySorted(SortByPriority(SortExample), SortExample)

C16_Witness ==
  /\ returned /\ call.op = "generateInsights" /\ call.at = now
  /\ Priorities(Emitted(call.transactions)) = <<"medium", "high", "medium", "low">>
  /\ Priorities(ret) = <<"high", "medium", "medium", "low">>
  /\ ret[2].title = "Gastos recurrentes identificados"
  /\ ret[3].title = "Aplica la regla 50/30/20"

\* C17: two invocations of generateInsights with the same transaction list
\* return the same list, equal in every field of every insight.
C17_Deterministic ==
  (call.op = "generateInsights" /\ call.invocations = 2) => ret = call.first

\* the number of income transactions of the list analysed that are dated in
\* the three months before the analysis
RecentIncomeCount ==
  Cardinality({k \in 1..Len(call.transactions) :
                 /\ call.transactions[k].type = "income"
                 /\ call.transactions[k].date >= subMonths(call.at, 3)})

\* the list holds the low-priority suggestion to consider additional income
SuggestsAdditionalIncome(list) ==
  \E k \in 1..Len(list) :
     /\ list[k].title = "Considera ingresos adicionales"
     /\ list[k].type = "suggestion"
     /\ list[k].priority = "low"

\* C24: generateInsights emits the low-priority 'consider additional income'
\* suggestion whenever the number of income transactions in the trailing 3
\* months is fewer than 5 (for every count 0 through 4), and never when it is
\* 5 or more.
C24_IncomeDiversification ==
  (returned /\ call.op = "generateInsights") =>
     (SuggestsAdditionalIncome(ret) <=> RecentIncomeCount < 5)

-----------------------------------------------------------------------------
(* analyzeSpendingPatterns on stores with expenses around the 30-day window *)

\* 30 * 24 * 60 * 60 * 1000 ms before the instant of the session
WindowStart == Today - 30 * TicksPerDay

\* food expenses of 1000, 0.01 and 1200 in the window and one of 300 before it,
\* a shopping expense at the first instant of the window and one a tick before
\* it, a recurring subscription charge, a salary
SpendingTxPool ==
  {[id |-> "f1000", accountId |-> "a1", date |-> MakeDate(2024, 3, 15),
    description |-> "MARKET", amount |-> Int2Num(1000), type |-> "expense",
    category |-> "food", isRecurring |-> FALSE, merchantName |-> "Market"],
   [id |-> "f001", accountId |-> "a1", date |-> MakeDate(2024, 3, 1),
    description |-> "CAFE", amount |-> Num(1, 100), type |-> "expense",
    category |-> "food", isRecurring |-> FALSE, merchantName |-> ""],
   [id |-> "f1200", accountId |-> "a1", date |-> MakeDate(2024, 3, 10),
    description |-> "GROCERY", amount |-> Int2Num(1200), type |-> "expense",
    category |-> "food", isRecurring |-> FALSE, merchantName |-> ""],
   [id |-> "f300", accountId |-> "a1", date |-> MakeDate(2024, 2, 10),
    description |-> "DINER", amount |-> Int2Num(300), type |-> "expense",
    category |-> "food", isRecurring |-> FALSE, merchantName |-> ""],
   [id |-> "s600", accountId |-> "a1", date |-> WindowStart,
    description |-> "AMAZON", amount |-> Int2Num(600), type |-> "expense",
    category |-> "shopping", isRecurring |-> FALSE, merchantName |-> "Amazon"],
   [id |-> "s601", accountId |-> "a1", date |-> WindowStart - 1,
    description |-> "WALMART", amount |-> Int2Num(601), type |-> "expense",
    category |-> "shopping", isRecurring |-> FALSE, merchantName |-> "Walmart"],
   [id |-> "n1", accountId |-> "a1", date |-> MakeDate(2024, 2, 20),
    description |-> "NETFLIX.COM", amount |-> Num(999, 100), type |-> "expense",
    category |-> "entertainment", isRecurring |-> TRUE, merchantName |-> "Netflix"],
   [id |-> "p1", accountId |-> "a1", date |-> MakeDate(2024, 3, 1),
    description |-> "PAYROLL", amount |-> Int2Num(3000), type |-> "income",
    category |-> "salary", isRecurring |-> TRUE, merchantName |-> ""]}

InitSpendingPatterns ==
  /\ accounts = <<>> /\ budgets = <<>> /\ insights = <<>>
  /\ spendingPatterns = <<>> /\ incomePatterns = <<>>
  /\ isLoading = FALSE /\ error = ""
  /\ dailyBudget = [isNull |-> TRUE]
  /\ transactions \in {<<>>} \cup SeqsUpTo(SpendingTxPool, MaxTx)
  /\ now = Today
  /\ ScreenInit
  /\ call = NoCall /\ returned = FALSE /\ ret = <<>>

NextSpendingPatterns == AnalyzeSpendingPatterns

SpecSpendingPatterns == InitSpendingPatterns /\ [][NextSpendingPatterns]_vars

\* the positions of the expenses of a category dated in the trailing 30 days
RecentExpensesOf(category) ==
  {k \in 1..Len(transactions) :
     /\ transactions[k].type = "expense"
     /\ transactions[k].category = category
     /\ transactions[k].date >= now - 30 * TicksPerDay}

\* the sum of the amounts at a set of positions
RECURSIVE TotalAt(_)
TotalAt(positions) ==
  IF positions = {} THEN Zero
  ELSE NAdd(transactions[CHOOSE k \in positions : TRUE].amount,
            TotalAt(positions \ {CHOOSE k \in positions : TRUE}))

\* a pattern carries the 30-day total of its category, the flag of a total
\* above 1000 and the trend stable
PatternOfTotal(pattern, total) ==
  /\ pattern.averageMonthly = total
  /\ pattern.unusualActivity = NGt(total, Int2Num(1000))
  /\ pattern.trend = "stable"

\* patterns holds exactly one pattern per category of categories
SpendingPatternsFor(patterns, categories) ==
  /\ OnePerKey([k \in 1..Len(patterns) |-> patterns[k].category], categories)
  /\ \A k \in 1..Len(patterns) :
       PatternOfTotal(patterns[k], TotalAt(RecentExpensesOf(patterns[k].category)))

\* C25: analyzeSpendingPatterns stores exactly one SpendingPattern for each
\* category that has at least one expense dated within the trailing 30 days
\* and none for other categories; its averageMonthly is the sum of those
\* expense amounts, unusualActivity is true iff that sum is strictly greater
\* than 1000, and trend is always stable.
C25_SpendingPatterns ==
  [][AnalyzeSpendingPatterns =>
       SpendingPatternsFor(spendingPatterns', RecentExpenseCategories)]_vars

C25_Witness ==
  /\ Len(transactions) = 2
  /\ transactions[1].id = "f1000" /\ transactions[2].id = "s600"
  /\ Len(spendingPatterns) = 2
  /\ spendingPatterns[1].category = "food"
  /\ spendingPatterns[1].averageMonthly = Int2Num(1000)
  /\ spendingPatterns[1].unusualActivity = FALSE
  /\ spendingPatterns[2].category = "shopping"
  /\ spendingPatterns[2].averageMonthly = Int2Num(600)

-----------------------------------------------------------------------------
(* intelligenceService.generateInsights on histories around a month's start *)
(* and on months of income and expenses *)

\* food expenses of this month (225, 1, 1200), of last month (300), of two
\* months ago (100) and of the month before (300); rent of this month and of
\* last month
UnusualTxPool ==
  {[id |-> "u225", accountId |-> "a1", date |-> MakeDate(2024, 3, 1),
    description |-> "MARKET", amount |-> Int2Num(225), type |-> "expense",
    category |-> "food", isRecurring |-> FALSE, merchantName |-> "Market"],
   [id |-> "u1", accountId |-> "a1", date |-> MakeDate(2024, 3, 12),
    description |-> "CAFE", amount |-> Int2Num(1), type |-> "expense",
    category |-> "food", isRecurring |-> FALSE, merchantName |-> ""],
   [id |-> "u1200", accountId |-> "a1", date |-> MakeDate(2024, 3, 15),
    description |-> "GROCERY", amount |-> Int2Num(1200), type |-> "expense",
    category |-> "food", isRecurring |-> FALSE, merchantName |-> ""],
   [id |-> "u300", accountId |-> "a1", date |-> MakeDate(2024, 2, 29) + 1,
    description |-> "DINER", amount |-> Int2Num(300), type |-> "expense",
    category |-> "food", isRecurring |-> FALSE, merchantName |-> ""],
   [id |-> "u100", accountId |-> "a1", date |-> MakeDate(2024, 1, 1),
    description |-> "PIZZA", amount |-> Int2Num(100), type |-> "expense",
    category |-> "food", isRecurring |-> FALSE, merchantName |-> ""],
   [id |-> "u2023", accountId |-> "a1", date |-> MakeDate(2023, 12, 31) + 1,
    description |-> "BURGER", amount |-> Int2Num(300), type |-> "expense",
    category |-> "food", isRecurring |-> FALSE, merchantName |-> ""],
   [id |-> "r2000", accountId |-> "a1", date |-> MakeDate(2024, 3, 1),
    description |-> "RENT", amount |-> Int2Num(2000), type |-> "expense",
    category |-> "rent", isRecurring |-> FALSE, merchantName |-> ""],
   [id |-> "r100", accountId |-> "a1", date |-> MakeDate(2024, 2, 1),
    description |-> "LEASE", amount |-> Int2Num(100), type |-> "expense",
    category |-> "rent", isRecurring |-> FALSE, merchantName |-> ""]}

\* incomes of this month (1000, 50) and of last month (3000); expenses of this
\* month (900, 45, 1, 1200)
BudgetRuleTxPool ==
  {[id |-> "i1000", accountId |-> "a1", date |-> MakeDate(2024, 3, 1),
    description |-> "PAYROLL", amount |-> Int2Num(1000), type |-> "income",
    category |-> "salary", isRecurring |-> TRUE, merchantName |-> ""],
   [id |-> "i50", accountId |-> "a1", date |-> MakeDate(2024, 3, 2),
    description |-> "REFUND", amount |-> Int2Num(50), type |-> "income",
    category |-> "other", isRecurring |-> FALSE, merchantName |-> ""],
   [id |-> "i3000", accountId |-> "a1", date |-> MakeDate(2024, 2, 29) + 1,
    description |-> "BONUS", amount |-> Int2Num(3000), type |-> "income",
    category |-> "salary", isRecurring |-> FALSE, merchantName |-> ""],
   [id |-> "e900", accountId |-> "a1", date |-> MakeDate(2024, 3, 10),
    description |-> "LANDLORD", amount |-> Int2Num(900), type |-> "expense",
    category |-> "rent", isRecurring |-> FALSE, merchantName |-> ""],
   [id |-> "e45", accountId |-> "a1", date |-> MakeDate(2024, 3, 5),
    description |-> "TAXI", amount |-> Int2Num(45), type |-> "expense",
    category |-> "transportation", isRecurring |-> FALSE, merchantName |-> ""],
   [id |-> "e1", accountId |-> "a1", date |-> MakeDate(2024, 3, 12),
    description |-> "KIOSK", amount |-> Int2Num(1), type |-> "expense",
    category |-> "other", isRecurring |-> FALSE, merchantName |-> ""],
   [id |-> "e1200", accountId |-> "a1", date |-> MakeDate(2024, 3, 15),
    description |-> "GROCERY", amount |-> Int2Num(1200), type |-> "expense",
    category |-> "food", isRecurring |-> FALSE, merchantName |-> ""]}

InitDetectors ==
  /\ StoreInit /\ ScreenInit /\ now = Today
  /\ \E txs \in {<<>>} \cup SeqsUpTo(UnusualTxPool, MaxInsightTx)
                  \cup SeqsUpTo(BudgetRuleTxPool, MaxInsightTx) :
       call = [op |-> "generateInsights", transactions |-> txs,
               invocations |-> 0, at |-> Today, first |-> <<>>]
  /\ returned = FALSE
  /\ ret = <<>>

NextDetectors == InvokeGenerateInsights

SpecDetectors == InitDetectors /\ [][NextDetectors]_vars

\* the calendar month of an instant, counted from year 0
MonthIndex(t) == getFullYear(t) * 12 + getMonth(t)

\* the positions in the list analysed of the transactions of a type and a
\* category dated `back` calendar months before the month of the analysis
OfMonth(type, categories, back) ==
  {k \in 1..Len(call.transactions) :
     /\ call.transactions[k].type = type
     /\ call.transactions[k].category \in categories
     /\ MonthIndex(call.transactions[k].date) = MonthIndex(call.at) - back}

\* the sum of the amounts at a set of positions of the list analysed
RECURSIVE SumAt(_)
SumAt(positions) ==
  IF positions = {} THEN Zero
  ELSE NAdd(call.transactions[CHOOSE k \in positions : TRUE].amount,
            SumAt(positions \ {CHOOSE k \in positions : TRUE}))

\* the categories the unusual-spending detector looks at
WatchedCategories ==
  {"food", "transportation", "entertainment", "utilities", "shopping", "healthcare"}

\* the high-priority warnings without potentialSavings a list holds for a category
UnusualWarnings(list, category) ==
  {k \in 1..Len(list) :
     /\ list[k].type = "warning"
     /\ list[k].priority = "high"
     /\ list[k].potentialSavings = Undefined
     /\ list[k].category = category}

\* a month's total is above 1.5 times a positive average
Spiked(thisMonthTotal, average) ==
  NGt(thisMonthTotal, NMul(Num(3, 2), average)) /\ NGt(average, Zero)

\* the average of the totals of the two preceding calendar months
PrecedingAverage(category) ==
  NDiv(NAdd(SumAt(OfMonth("expense", {category}, 1)),
            SumAt(OfMonth("expense", {category}, 2))), Int2Num(2))

\* C26: for each category in {food, transportation, entertainment, utilities,
\* shopping, healthcare}, generateInsights emits exactly one high-priority
\* warning without potentialSavings iff the current-month expense total of
\* that category is strictly greater than 1.5 times the average of the totals
\* of the two preceding calendar months and that average is > 0; for any
\* other category it emits none.
C26_UnusualCategory ==
  (returned /\ call.op = "generateInsights") =>
     \A category \in TransactionCategories :
        Cardinality(UnusualWarnings(ret, category)) =
          IF /\ category \in WatchedCategories
             /\ Spiked(SumAt(OfMonth("expense", {category}, 0)), PrecedingAverage(category))
          THEN 1 ELSE 0

C26_Witness ==
  /\ returned /\ call.op = "generateInsights"
  /\ Len(call.transactions) = 3
  /\ call.transactions[1].id = "u300"
  /\ call.transactions[2].id = "u225"
  /\ call.transactions[3].id = "u1"
  /\ PrecedingAverage("food") = Int2Num(150)
  /\ Cardinality(UnusualWarnings(ret, "food")) = 1
  /\ ret[1].title = "Gasto elevado en comida"

\* the income and the expenses of the month of the analysis
MonthIncomeTotal == SumAt(OfMonth("income", TransactionCategories, 0))
MonthExpenseTotal == SumAt(OfMonth("expense", TransactionCategories, 0))

\* the positions of the 50/30/20 suggestions and of the high-spending warnings
BudgetRules(list) ==
  {k \in 1..Len(list) :
     list[k].title = "Aplica la regla 50/30/20" /\ list[k].type = "suggestion"}
HighSpendings(list) ==
  {k \in 1..Len(list) :
     list[k].title = "Nivel de gastos muy alto" /\ list[k].type = "warning"}

\* the text of the suggestion for an income and its three shares
RuleText(income, needs, wants, savings) ==
  "Para tus ingresos de $" \o toFixed(income, 2) \o ", intenta: $" \o toFixed(needs, 2)
    \o " en necesidades, $" \o toFixed(wants, 2) \o " en deseos, y $"
    \o toFixed(savings, 2) \o " en ahorros."

BudgetRulesFor(list, income, expenses) ==
  /\ Cardinality(BudgetRules(list)) = IF NGt(income, Zero) THEN 1 ELSE 0
  /\ \A k \in BudgetRules(list) :
       list[k].description =
         RuleText(income, NMul(Num(1, 2), income), NMul(Num(3, 10), income),
                  NMul(Num(1, 5), income))
  /\ Cardinality(HighSpendings(list)) =
       IF NGt(income, Zero) /\ NGt(NDiv(expenses, income), Num(9, 10)) THEN 1 ELSE 0
  /\ HighSpendings(list) # {} => BudgetRules(list) # {}
  /\ \A h \in HighSpendings(list), r \in BudgetRules(list) : h < r

\* C27: generateInsights emits exactly one 50/30/20 suggestion (needs = 0.5 x
\* income, wants = 0.3 x income, savings = 0.2 x income) iff current-month
\* income is > 0, and additionally the high-spending warning iff the
\* current-month expense/income ratio is > 0.9; whenever the high-spending
\* warning is present the 50/30/20 suggestion is present too and comes after it.
C27_BudgetRules ==
  (returned /\ call.op = "generateInsights") =>
     BudgetRulesFor(ret, MonthIncomeTotal, MonthExpenseTotal)

C27_Witness ==
  /\ returned /\ call.op = "generateInsights"
  /\ Len(call.transactions) = 3
  /\ call.transactions[1].id = "i1000"
  /\ call.transactions[2].id = "e900"
  /\ call.transactions[3].id = "e1"
  /\ HighSpendings(ret) = {1}
  /\ BudgetRules(ret) = {2}
  /\ ret[2].description =
       "Para tus ingresos de $1000.00, intenta: $500.00 en necesidades, $300.00 en deseos, y $200.00 en ahorros."

-----------------------------------------------------------------------------
(* DashboardScreen.loadData: the derived fields after a pass *)

\* the positions of the incomes of a source dated in the trailing 90 days
RecentIncomesOf(source) ==
  {k \in 1..Len(transactions) :
     /\ transactions[k].type = "income"
     /\ MerchantOf(transactions[k]) = source
     /\ transactions[k].date >= now - 90 * TicksPerDay}

\* the categories whose expenses of the trailing 30 days exceed 1000
CategoriesAboveThreshold ==
  {category \in RecentExpenseCategories :
     NGt(TotalAt(RecentExpensesOf(category)), Int2Num(1000))}

\* the derived fields sp, ip, db and ins hold what the stored transactions
\* give: the spending patterns and the income patterns of the transactions,
\* the budget of the transactions and of the income patterns ip, one insight
\* per category above the threshold
DerivedFromTransactions(sp, ip, db, ins) ==
  /\ SpendingPatternsFor(sp, RecentExpenseCategories)
  /\ OnePerKey([k \in 1..Len(ip) |-> ip[k].source], RecentIncomeSources)
  /\ \A k \in 1..Len(ip) :
       ip[k].averageMonthly =
         NDiv(TotalAt(RecentIncomesOf(ip[k].source)), Int2Num(3))
  /\ ~db.isNull
  /\ BudgetMatches(db,
                   NDiv(NSub(Sum([k \in 1..Len(ip) |-> ip[k].averageMonthly]),
                             MonthExpensesToNow),
                        Int2Num(DaysLeftInMonth)),
                   ExpensesOfToday)
  /\ OnePerKey([k \in 1..Len(ins) |-> ins[k].category], CategoriesAboveThreshold)

\* C28: a load pass (analyzeSpendingPatterns, analyzeIncomePatterns,
\* calculateDailyBudget, generateInsights, in that order), whatever additions,
\* updates and removals of transactions and removals of accounts came before
\* it and whatever the derived fields held, changes no transaction and leaves
\* the daily budget computed from the income patterns of that pass and the
\* insights from the spending patterns of that pass: every derived field is
\* what the current transactions give.
C28_NoStaleDerivedState ==
  [][LoadData =>
       /\ UNCHANGED <<accounts, transactions, budgets, now>>
       /\ DerivedFromTransactions(spendingPatterns', incomePatterns', dailyBudget',
                                  insights')]_vars

\* a recategorized expense and a salary: the patterns, the budget and the
\* insight of these two transactions
C28_Witness ==
  /\ Len(transactions) = 2
  /\ transactions[1].id = "t1" /\ transactions[1].category = "shopping"
  /\ transactions[2].id = "t2"
  /\ DerivedFromTransactions(spendingPatterns, incomePatterns, dailyBudget, insights)
  /\ Len(spendingPatterns) = 1 /\ spendingPatterns[1].category = "shopping"
  /\ Len(insights) = 1 /\ insights[1].category = "shopping"
  /\ Len(incomePatterns) = 1 /\ incomePatterns[1].averageMonthly = Int2Num(1000)
  /\ dailyBudget.availableToSpend = Num(-200, 17)

-----------------------------------------------------------------------------
(* ImportScreen.handleImport: a picked file through validation, import, *)
(* categorisation and the store *)

StarbucksFile ==
  "Posting Date, Description, Type, Amount\n2024-01-15,STARBUCKS #1,DEBIT,-42.10\n"

\* the files the user picks: one Chase row; no data; an unknown header; a bad
\* row before a good one; one column
ImportFiles ==
  {StarbucksFile,
   "",
   "Foo,Bar\nx,y",
   "Posting Date, Description, Type, Amount\nn/a,COFFEE,DEBIT,-3.00\n2024-01-16,PAYROLL,CREDIT,1500.00",
   "lonely\nrow"}

Idle == [op |-> "idle"]

\* result.transactions.map((t) => ({ ...t, category: categorizeTransaction(...) }))
categorizedTransactions(imported) ==
  [k \in 1..Len(imported) |->
     [imported[k] EXCEPT !.category =
        categorizeTransaction(imported[k].description, imported[k].merchantName)]]

\* what a finished handleImport did: the alert it showed, and the
\* transactions and errors of its import
Outcome(alert, content, bankName, imported, errors) ==
  [alert |-> alert, content |-> content, bankName |-> bankName,
   imported |-> imported, errors |-> errors]

InitImportFlow ==
  /\ StoreInit /\ ScreenInit
  /\ now = 0
  /\ call = Idle
  /\ returned = FALSE
  /\ ret = <<>>

\* setSelectedBank
SelectBank(bank) ==
  /\ selectedBank' = bank
  /\ UNCHANGED <<storeVars, importing, callVars, now>>

\* handleImport up to its await: an invalid file ends it, otherwise importCSV
\* is called with the selected bank
HandleImport(content) ==
  /\ call = Idle
  /\ Len(transactions) < MaxTx
  /\ UNCHANGED <<storeVars, selectedBank, now>>
  /\ IF ~validateFile(content).valid
     THEN /\ importing' = FALSE
          /\ call' = Idle
          /\ returned' = TRUE
          /\ ret' = Outcome("Error", content, selectedBank, <<>>, <<validateFile(content).error>>)
     ELSE /\ importing' = TRUE
          /\ call' = [op |-> "handleImport", content |-> content,
                      bankName |-> selectedBank,
                      result |-> importCSV(content, selectedBank)]
          /\ returned' = FALSE
          /\ ret' = ret

\* a handleImport that returns from a failed import without setImporting(false)
ResumeImportNoReset ==
  /\ call # Idle
  /\ call' = Idle
  /\ returned' = TRUE
  /\ UNCHANGED <<accounts, budgets, insights, dailyBudget, spendingPatterns,
                 incomePatterns, isLoading, error, selectedBank, now>>
  /\ IF Len(call.result.errors) > 0 /\ Len(call.result.transactions) = 0
     THEN /\ ret' = Outcome("Error al Importar", call.content, call.bankName,
                            <<>>, call.result.errors)
          /\ importing' = importing
          /\ UNCHANGED transactions
     ELSE /\ transactions' = transactions \o categorizedTransactions(call.result.transactions)
          /\ ret' = Outcome("Importación Exitosa", call.content, call.bankName,
                            categorizedTransactions(call.result.transactions),
                            call.result.errors)
          /\ importing' = FALSE

\* handleImport after the await
ResumeImport ==
  /\ call # Idle
  /\ importing' = FALSE
  /\ call' = Idle
  /\ returned' = TRUE
  /\ UNCHANGED <<accounts, budgets, insights, dailyBudget, spendingPatterns,
                 incomePatterns, isLoading, error, selectedBank, now>>
  /\ IF Len(call.result.errors) > 0 /\ Len(call.result.transactions) = 0
     THEN /\ ret' = Outcome("Error al Importar", call.content, call.bankName,
                            <<>>, call.result.errors)
          /\ UNCHANGED transactions
     ELSE /\ transactions' = transactions \o categorizedTransactions(call.result.transactions)
          /\ ret' = Outcome("Importación Exitosa", call.content, call.bankName,
                            categorizedTransactions(call.result.transactions),
                            call.result.errors)

NextImportFlow ==
  \/ \E bank \in ScreenHints : SelectBank(bank)
  \/ \E content \in ImportFiles : HandleImport(content)
  \/ ResumeImport

SpecImportFlow == InitImportFlow /\ [][NextImportFlow]_vars

\* C1: the Chase file with one DEBIT row of -42.10 for "STARBUCKS #1",
\* imported with no bank selected, yields exactly one transaction with amount
\* 42.10, type expense, category food and merchantName STARBUCKS, and no
\* errors.
C1_EndToEnd ==
  (returned /\ ret.content = StarbucksFile /\ ret.bankName = "") =>
     /\ Len(ret.imported) = 1
     /\ ret.imported[1].amount = Num(4210, 100)
     /\ ret.imported[1].type = "expense"
     /\ ret.imported[1].category = "food"
     /\ ret.imported[1].merchantName = "STARBUCKS"
     /\ ret.errors = <<>>

\* the store after the transactions of result were added to before: before,
\* then one transaction per returned transaction, in order, equal to it but
\* for its category, which is the categorizer's
AddedCategorized(before, after, result) ==
  /\ Len(after) = Len(before) + Len(result.transactions)
  /\ SubSeq(after, 1, Len(before)) = before
  /\ \A k \in 1..Len(result.transactions) :
       /\ after[Len(before) + k].category =
            categorizeTransaction(result.transactions[k].description,
                                  result.transactions[k].merchantName)
       /\ [after[Len(before) + k] EXCEPT !.category = result.transactions[k].category]
            = result.transactions[k]

\* the file of the handleImport that left this call and this outcome
PickedFile(pending, ended, outcome) ==
  IF pending # Idle THEN pending.content
  ELSE IF ended THEN outcome.content
  ELSE "none"

\* what the part of handleImport after the await leaves of an import result
ImportSettled(before, after, result) ==
  IF Len(result.transactions) = 0
  THEN after = before
  ELSE AddedCategorized(before, after, result)

\* C29: in the import flow a file that fails validation, and an import that
\* returns errors and no transaction, add no transaction and no account to the
\* store; an import that returns transactions adds exactly those, in order,
\* each with category = categorizeTransaction(description, merchantName),
\* row errors or not; and the importing flag is true only while an import is
\* awaited, false after every way handleImport ends.
C29_FailedImportLeavesStore ==
  [][/\ accounts' = accounts
     /\ importing' <=> call' # Idle
     /\ \A content \in {PickedFile(call', returned', ret')} \cap ImportFiles :
          HandleImport(content) =>
            /\ transactions' = transactions
            /\ call' = Idle <=> ~validateFile(content).valid
     /\ ResumeImport =>
          /\ ~importing'
          /\ ImportSettled(transactions, transactions',
                           call.result)]_vars

\* a partial success: the row with no date reported, the payroll row added
\* to the store as salary
C29_Witness ==
  /\ returned /\ ~importing /\ call = Idle
  /\ ret.alert = "Importación Exitosa"
  /\ Len(ret.errors) = 1
  /\ Len(ret.imported) = 1
  /\ Len(transactions) = 1
  /\ transactions[1] = ret.imported[1]
  /\ transactions[1].description = "PAYROLL"
  /\ transactions[1].category = "salary"
  /\ accounts = <<>>

====
